---------------------------- MODULE Spec2Model ----------------------------
(***************************************************************************)
(* A model of the rasterization and clipping core of graphics_introduction.*)
(*                                                                         *)
(* Numbers.  src/src/segment.rs, curve.rs, figure.rs and the containment   *)
(* test of polygon.rs compute in f64; src/src/line.rs computes in i32.     *)
(* An f64 is modelled as an exact rational [n, d] (d > 0, lowest terms);   *)
(* a quotient with a zero divisor is the non-finite value [n, 0].  All     *)
(* inputs are small, so no i32 overflows and every f64 sum and product of  *)
(* the inputs is exact; only the rounding of inexact quotients is          *)
(* idealised.  f64::signum(+0.0) is 1.0, i32::signum(0) is 0: both are     *)
(* modelled as they are.  Coordinates fed to the f64 clipper are           *)
(* non-negative grid points, for which every zero the sign computation     *)
(* meets is +0.0.                                                          *)
(***************************************************************************)
EXTENDS Integers, Sequences, FiniteSets, TLC

VARIABLES
    rKind,      \* raster harness: the constructor that is called
    rStart,     \* raster harness: its start argument
    rEnd,       \* raster harness: its end argument
    rPc,        \* raster harness: "call" before the constructor ran, "done" after
    rOut,       \* raster harness: what the constructor returned
    shape,      \* clip harness: "Polygon" or "Figure", the type of the closed shape
    shapeEdges, \* clip harness: the edges of the shape, each a point list
    segPoints,  \* clip harness: the stored points of the segment (empty: no segment)
    cOp,        \* clip harness: the operation of the last call
    cStart,     \* clip harness: its point, or its start point
    cEnd,       \* clip harness: its end point
    cRet,       \* clip harness: what it returned
    cBefore,    \* clip harness: the stored points when cut_inside_polygon was entered
    cPc,        \* clip harness: "ready", "built" (a segment exists), "done"
    qXfn,       \* curve harness: the x_fn argument, t |-> m * t + c
    qYfn,       \* curve harness: the y_fn argument
    qStart,     \* curve harness: the start argument
    qEnd,       \* curve harness: the end argument
    qSegments,  \* curve harness: the num_segments argument, an Option<i32>
    qPc,        \* curve harness: "call" before new_parametric ran, "done" after
    qOut,       \* curve harness: what new_parametric returned
    iCurve,     \* implicit harness: the curve argument, (x, y) |-> (a*x + b*y + c) / den
    iWidth,     \* implicit harness: the width argument
    iHeight,    \* implicit harness: the height argument
    iPc,        \* implicit harness: "call" before new_implicit ran, "done" after
    iOut,       \* implicit harness: the points of the curve new_implicit returned
    bOp,        \* build harness: the constructor that is called
    bPoints,    \* build harness: its points argument (constructors from points)
    bPrims,     \* build harness: its primitives argument, each a point list
    bArcs,      \* build harness: the arcs added to a HermiteArcFigureBuilder
    bPc,        \* build harness: "call" before the constructor ran, "done" after
    bOut,       \* build harness: what it returned, and the edges or points it stored
    nOp,        \* render harness: the render that is called
    nPrims,     \* render harness: the primitive, or the edges of the shape, that is rendered
    nRen,       \* render harness: the renderer (color, calls received, draws that succeed)
    nBefore,    \* render harness: the renderer when render was entered
    nRet,       \* render harness: what render returned
    nPc,        \* render harness: "call" before render ran, "done" after
    aOp,        \* algebra harness: the function that is called
    aPoints,    \* algebra harness: its point arguments
    aLines,     \* algebra harness: its line arguments, as whole coefficients [a, b, c]
    aNums,      \* algebra harness: its number arguments
    aSeg,       \* algebra harness: the stored points of its segment argument
    aOut,       \* algebra harness: what it returned
    aPc         \* algebra harness: "call" before the function ran, "done" after

rasterVars == <<rKind, rStart, rEnd, rPc, rOut>>

clipVars == <<shape, shapeEdges, segPoints, cOp, cStart, cEnd, cRet, cBefore, cPc>>

curveVars == <<qXfn, qYfn, qStart, qEnd, qSegments, qPc, qOut>>

implicitVars == <<iCurve, iWidth, iHeight, iPc, iOut>>

buildVars == <<bOp, bPoints, bPrims, bArcs, bPc, bOut>>

renderVars == <<nOp, nPrims, nRen, nBefore, nRet, nPc>>

algebraVars == <<aOp, aPoints, aLines, aNums, aSeg, aOut, aPc>>

vars == <<rasterVars, clipVars, curveVars, implicitVars, buildVars, renderVars, algebraVars>>

\* what a call of one harness leaves alone: the variables of all the others
notRasterVars == <<clipVars, curveVars, implicitVars, buildVars, renderVars, algebraVars>>

notClipVars == <<rasterVars, curveVars, implicitVars, buildVars, renderVars, algebraVars>>

notCurveVars == <<rasterVars, clipVars, implicitVars, buildVars, renderVars, algebraVars>>

notImplicitVars == <<rasterVars, clipVars, curveVars, buildVars, renderVars, algebraVars>>

notBuildVars == <<rasterVars, clipVars, curveVars, implicitVars, renderVars, algebraVars>>

notRenderVars == <<rasterVars, clipVars, curveVars, implicitVars, buildVars, algebraVars>>

notAlgebraVars == <<rasterVars, clipVars, curveVars, implicitVars, buildVars, renderVars>>

-----------------------------------------------------------------------------
(* Bounds of the model.                                                    *)

\* raster harness: endpoints range over the grid -MaxCoord..MaxCoord squared
MaxCoord == 2

\* clip harness: endpoints range over the grid 0..MaxClipCoord squared
MaxClipCoord == 5

\* curve harness: x_fn and y_fn are t |-> m * t with m in -MaxSlope..MaxSlope
MaxSlope == 2

\* curve harness: the interval ends are the whole numbers 0..MaxTime and a few
\* thousandths
MaxTime == 2

\* curve harness: num_segments is Some(1..MaxSegments), or None on the
\* interval of the test
MaxSegments == 3

\* implicit harness: width and height range over -1..MaxSide
MaxSide == 3

\* build harness: a constructor from primitives is given at most MaxPrims
\* of them
MaxPrims == 3

\* build harness: a constructor from points is given at most MaxPoints of them
MaxPoints == 4

\* build harness: a HermiteArcFigureBuilder is given at most MaxArcs arcs
MaxArcs == 2

\* implicit harness: the coefficients a and b of the curve range over
\* -MaxCoeff..MaxCoeff, its constant over -MaxCoeff-1..0
MaxCoeff == 1

\* algebra harness: points have coordinates k/2, lines have coefficients k, with
\* k in -MaxAlg..MaxAlg
MaxAlg == 2

\* rectangle harness: the rectangles have a corner in 0..MaxRect-1 and sides of
\* 1..MaxRect
MaxRect == 2

-----------------------------------------------------------------------------
(* Integer helpers (i32 of line.rs).                                       *)

IAbs(v) == IF v < 0 THEN -v ELSE v

\* i32::signum: -1, 0 or 1
ISignum(v) == IF v > 0 THEN 1 ELSE IF v < 0 THEN -1 ELSE 0

RECURSIVE GCD(_, _)
GCD(a, b) == IF b = 0 THEN a ELSE GCD(b, a % b)

-----------------------------------------------------------------------------
(* `while C(s) { s = B(s) }`, run for at most 256 or 1024 iterations.  A   *)
(* loop the code would not leave within that many iterations is recognised *)
(* by C still holding of the result.                                       *)

RECURSIVE While(_, _, _, _)
\* the state after a loop `while C(s) { s = B(s) }` that started in s, or the state
\* after n iterations when the loop takes more than n: the first half of the
\* iterations is evaluated, then the second half starts from its result
While(C(_), B(_), s, n) ==
    IF ~C(s) THEN s
    ELSE IF n = 1 THEN B(s)
    ELSE CHOOSE r \in {While(C, B, m, n - (n \div 2)) : m \in {While(C, B, s, n \div 2)}} : TRUE

While256(C(_), B(_), s) == CHOOSE r \in {While(C, B, v, 256) : v \in {s}} : TRUE

While1024(C(_), B(_), s) == CHOOSE r \in {While(C, B, v, 1024) : v \in {s}} : TRUE

-----------------------------------------------------------------------------
(* f64 as exact rationals.                                                 *)

\* the rational n/d in lowest terms with a positive denominator; d = 0 gives
\* the non-finite values: [1,0] = +inf, [-1,0] = -inf, [0,0] = NaN
Rat(n, d) ==
    IF d = 0 THEN [n |-> ISignum(n), d |-> 0]
    ELSE LET g == GCD(IAbs(n), IAbs(d))
             s == IF d < 0 THEN -1 ELSE 1
         IN  [n |-> s * (n \div g), d |-> s * (d \div g)]

FromInt(i) == [n |-> i, d |-> 1]

IsFinite(a) == a.d # 0

IsNaN(a) == a.d = 0 /\ a.n = 0

RAdd(a, b) ==
    IF IsFinite(a) /\ IsFinite(b) THEN Rat(a.n * b.d + b.n * a.d, a.d * b.d)
    ELSE IF IsNaN(a) \/ IsNaN(b) THEN Rat(0, 0)
    ELSE IF ~IsFinite(a) /\ ~IsFinite(b) /\ a.n # b.n THEN Rat(0, 0)
    ELSE IF ~IsFinite(a) THEN a ELSE b

RNeg(a) == [n |-> -a.n, d |-> a.d]

RSub(a, b) == RAdd(a, RNeg(b))

RMul(a, b) ==
    IF IsFinite(a) /\ IsFinite(b) THEN Rat(a.n * b.n, a.d * b.d)
    ELSE IF IsNaN(a) \/ IsNaN(b) \/ a.n = 0 \/ b.n = 0 THEN Rat(0, 0)
    ELSE Rat(ISignum(a.n) * ISignum(b.n), 0)

\* f64 division: x/0 is an infinity, 0/0 is NaN
RDiv(a, b) ==
    IF IsFinite(a) /\ IsFinite(b) THEN Rat(a.n * b.d, a.d * b.n)
    ELSE IF IsNaN(a) \/ IsNaN(b) THEN Rat(0, 0)
    ELSE IF ~IsFinite(a) /\ ~IsFinite(b) THEN Rat(0, 0)
    ELSE IF ~IsFinite(a) THEN Rat(a.n * (IF b.n < 0 THEN -1 ELSE 1), 0)
    ELSE Rat(0, 1)

\* f64::mul_add(a, b, c) = a * b + c
RMulAdd(a, b, c) == RAdd(RMul(a, b), c)

RAbs(a) == [n |-> IAbs(a.n), d |-> a.d]

\* a < b; every comparison with NaN is false
RLt(a, b) ==
    IF IsNaN(a) \/ IsNaN(b) THEN FALSE
    ELSE IF IsFinite(a) /\ IsFinite(b) THEN a.n * b.d < b.n * a.d
    ELSE IF ~IsFinite(a) /\ ~IsFinite(b) THEN a.n < b.n
    ELSE IF ~IsFinite(a) THEN a.n < 0
    ELSE b.n > 0

RGt(a, b) == RLt(b, a)

\* f64::signum: 1.0 for positive values and +0.0, -1.0 for negative values, NaN for NaN
\* (the value 2 stands for NaN)
RSignum(a) == IF IsNaN(a) THEN 2 ELSE IF a.n >= 0 THEN 1 ELSE -1

\* `as i32` of a finite f64: truncation towards zero
RTruncate(a) == IF a.n >= 0 THEN a.n \div a.d ELSE -((-a.n) \div a.d)

-----------------------------------------------------------------------------
(* Points.                                                                 *)

\* Point of line.rs: i32 coordinates
IPoint(x, y) == [x |-> x, y |-> y]

\* Point::new of lib.rs: f64 coordinates
Point(x, y) == [x |-> x, y |-> y]

\* From<(i32, i32)> for Point
PointFromInts(i, j) == Point(FromInt(i), FromInt(j))

\* a point of whole coordinates as the i32 point of line.rs
AsIPoint(p) == IPoint(p.x.n, p.y.n)

ERROR_MARGIN == Rat(7, 10)

SMALL_ERROR_MARGIN == Rat(1, 1000)

-----------------------------------------------------------------------------
(* line.rs: the integer-grid rasterizer OneColorLine.                      *)

\* a faulty loop condition: the loop stops as soon as x has arrived
OneColorLine_new_condition_x_only(x, y, end) == x # end.x

\* the loop condition of OneColorLine::new
OneColorLine_new_condition(x, y, end) == x # end.x \/ y # end.y

\* a faulty iteration: the two branches taken on a positive decision are exchanged,
\* so that the driving axis is stepped twice
OneColorLine_new_body_exchanged(x, y, decision, c) ==
    LET pos == decision > 0
        x1 == IF pos /\ ~c.swapped THEN x + c.sign_x ELSE x
        y1 == IF pos /\ c.swapped THEN y - c.sign_y ELSE y
        d1 == IF pos THEN decision - 2 * c.distance_x ELSE decision
        x2 == IF c.swapped THEN x1 ELSE x1 + c.sign_x
        y2 == IF c.swapped THEN y1 - c.sign_y ELSE y1
    IN  [x |-> x2, y |-> y2, decision |-> d1 + 2 * c.distance_y]

\* one iteration of the loop of OneColorLine::new; c holds the values the loop
\* does not change (end, sign_x, sign_y, swapped, distance_x, distance_y)
OneColorLine_new_body(x, y, decision, c) ==
    LET pos == decision > 0
        x1 == IF pos /\ c.swapped THEN x + c.sign_x ELSE x
        y1 == IF pos /\ ~c.swapped THEN y - c.sign_y ELSE y
        d1 == IF pos THEN decision - 2 * c.distance_x ELSE decision
        x2 == IF c.swapped THEN x1 ELSE x1 + c.sign_x
        y2 == IF c.swapped THEN y1 - c.sign_y ELSE y1
    IN  [x |-> x2, y |-> y2, decision |-> d1 + 2 * c.distance_y]

\* the while loop of OneColorLine::new, from the state s = (x, y, decision, points)
OneColorLine_new_loop(s, c) ==
    LET r == While256(LAMBDA st : OneColorLine_new_condition(st.x, st.y, c.end),
                      LAMBDA st : LET n == OneColorLine_new_body(st.x, st.y, st.decision, c)
                                 IN  [x |-> n.x, y |-> n.y, decision |-> n.decision,
                                      points |-> Append(st.points, IPoint(n.x, n.y))],
                      s)
    IN  [points |-> r.points, finished |-> ~OneColorLine_new_condition(r.x, r.y, c.end)]

\* OneColorLine::new
OneColorLine_new(start, end) ==
    LET dx == IAbs(end.x - start.x)
        dy == IAbs(start.y - end.y)
        swapped == dx < dy
        c == [end |-> end,
              sign_x |-> ISignum(end.x - start.x),
              sign_y |-> ISignum(start.y - end.y),
              swapped |-> swapped,
              distance_x |-> IF swapped THEN dy ELSE dx,
              distance_y |-> IF swapped THEN dx ELSE dy]
    IN  OneColorLine_new_loop([x |-> start.x, y |-> start.y,
                               decision |-> 2 * c.distance_y - c.distance_x,
                               points |-> <<IPoint(start.x, start.y)>>], c)

\* one iteration of the for loop of OneColorLine::new_45_deg
OneColorLine_new_45_deg_body(u, distance_x, distance_y) ==
    LET pos == u.decision > 0
    IN  [i |-> u.i + 1,
         points |-> Append(u.points, IPoint(u.x, u.y)),
         y |-> IF pos THEN u.y - 1 ELSE u.y,
         decision |-> IF pos THEN u.decision + 2 * (distance_y - distance_x)
                             ELSE u.decision + 2 * distance_y,
         x |-> u.x + 1]

\* OneColorLine::new_45_deg
OneColorLine_new_45_deg(start, end) ==
    LET distance_x == end.x - start.x
        distance_y == start.y - end.y
        r == While256(LAMBDA st : st.i < distance_x,
                      LAMBDA st : OneColorLine_new_45_deg_body(st, distance_x, distance_y),
                      [i |-> 0, points |-> <<>>, x |-> start.x, y |-> start.y,
                       decision |-> 2 * distance_y - distance_x])
    IN  [points |-> r.points, finished |-> ~(r.i < distance_x)]

-----------------------------------------------------------------------------
(* segment.rs: the f64 rasterizer OneColorSegment.                         *)

I32_MAX == 2147483647

I32_MIN == -I32_MAX - 1

\* a faulty loop condition: the loop stops as soon as x is near end.x
OneColorSegment_new_condition_x_only(x, y, end) == RGt(RAbs(RSub(x, end.x)), ERROR_MARGIN)

\* the loop condition of OneColorSegment::new
OneColorSegment_new_condition(x, y, end) ==
    \/ RGt(RAbs(RSub(x, end.x)), ERROR_MARGIN)
    \/ RGt(RAbs(RSub(y, end.y)), ERROR_MARGIN)

\* one iteration of the loop of OneColorSegment::new
OneColorSegment_new_body(x, y, decision, c) ==
    LET pos == RGt(decision, FromInt(0))
        x1 == IF pos /\ c.swapped THEN RAdd(x, c.sign_x) ELSE x
        y1 == IF pos /\ ~c.swapped THEN RSub(y, c.sign_y) ELSE y
        d1 == IF pos THEN RSub(decision, RMul(FromInt(2), c.distance_x)) ELSE decision
        x2 == IF c.swapped THEN x1 ELSE RAdd(x1, c.sign_x)
        y2 == IF c.swapped THEN RSub(y1, c.sign_y) ELSE y1
    IN  [x |-> x2, y |-> y2, decision |-> RAdd(d1, RMul(FromInt(2), c.distance_y))]

\* the while loop of OneColorSegment::new, from the state s = (x, y, decision, points)
OneColorSegment_new_loop(s, c) ==
    LET r == While256(LAMBDA st : OneColorSegment_new_condition(st.x, st.y, c.end),
                      LAMBDA st : LET n == OneColorSegment_new_body(st.x, st.y, st.decision, c)
                                 IN  [x |-> n.x, y |-> n.y, decision |-> n.decision,
                                      points |-> Append(st.points, Point(n.x, n.y))],
                      s)
    IN  [points |-> r.points, finished |-> ~OneColorSegment_new_condition(r.x, r.y, c.end)]

\* OneColorSegment::new
OneColorSegment_new(start, end) ==
    LET dx == RAbs(RSub(end.x, start.x))
        dy == RAbs(RSub(start.y, end.y))
        swapped == RLt(dx, dy)
        c == [end |-> end,
              sign_x |-> FromInt(RSignum(RSub(end.x, start.x))),
              sign_y |-> FromInt(RSignum(RSub(start.y, end.y))),
              swapped |-> swapped,
              distance_x |-> IF swapped THEN dy ELSE dx,
              distance_y |-> IF swapped THEN dx ELSE dy]
    IN  OneColorSegment_new_loop(
            [x |-> start.x, y |-> start.y,
             decision |-> RMulAdd(FromInt(2), c.distance_y, RNeg(c.distance_x)),
             points |-> <<Point(start.x, start.y)>>], c)

\* one iteration of the for loop of OneColorSegment::new_45_deg
OneColorSegment_new_45_deg_body(u, distance_x, distance_y) ==
    LET pos == RGt(u.decision, FromInt(0))
    IN  [i |-> u.i + 1,
         points |-> Append(u.points, Point(u.x, u.y)),
         y |-> IF pos THEN RSub(u.y, FromInt(1)) ELSE u.y,
         decision |-> IF pos THEN RAdd(u.decision, RMul(FromInt(2), RSub(distance_y, distance_x)))
                             ELSE RAdd(u.decision, RMul(FromInt(2), distance_y)),
         x |-> RAdd(u.x, FromInt(1))]

\* OneColorSegment::new_45_deg; ok = FALSE is Err(InvalidPoints)
OneColorSegment_new_45_deg(start, end) ==
    LET distance_x == RSub(end.x, start.x)
        distance_y == RSub(start.y, end.y)
    IN  IF \/ RGt(distance_x, FromInt(I32_MAX))
           \/ RLt(distance_x, FromInt(I32_MIN))
           \/ ~IsFinite(distance_x)
        THEN [ok |-> FALSE, points |-> <<>>, finished |-> TRUE]
        ELSE LET loop_condition == RTruncate(distance_x)
                 r == While256(LAMBDA st : st.i < loop_condition,
                               LAMBDA st : OneColorSegment_new_45_deg_body(st, distance_x, distance_y),
                               [i |-> 0, points |-> <<>>, x |-> start.x, y |-> start.y,
                                decision |-> RMulAdd(FromInt(2), distance_y, RNeg(distance_x))])
             IN  [ok |-> TRUE, points |-> r.points, finished |-> ~(r.i < loop_condition)]

\* GeometricPrimitve::first_point, last_point, length
first_point(points) == points[1]

last_point(points) == points[Len(points)]

length(points) == Len(points)

-----------------------------------------------------------------------------
(* polygon.rs, figure.rs: closed shapes and the containment test.          *)

\* f64 ==: NaN equals nothing, and -0.0 == 0.0 (a rational has one zero)
REq(a, b) == ~IsNaN(a) /\ ~IsNaN(b) /\ a = b

\* #[derive(PartialEq)] for Point
PointEq(p, q) == REq(p.x, q.x) /\ REq(p.y, q.y)

\* slice::windows(2) chained with iter::once((last, first))
CyclicPairs(seq) ==
    [i \in 1 .. Len(seq) |->
        IF i < Len(seq) THEN <<seq[i], seq[i + 1]>> ELSE <<seq[Len(seq)], seq[1]>>]

\* Polygon::new / Figure::from_points: the edges are the rasterized segments between
\* consecutive points and from the last point back to the first; ok = FALSE is
\* Err(NotEnoughPointsError).  min is 3 for Polygon::new and 2 for Figure::from_points.
ShapeFromPoints(points, min) ==
    IF Len(points) < min THEN [ok |-> FALSE, edges |-> <<>>]
    ELSE [ok |-> TRUE,
          edges |-> [i \in 1 .. Len(points) |->
                        OneColorSegment_new(CyclicPairs(points)[i][1],
                                            CyclicPairs(points)[i][2]).points]]

Polygon_new(points) == ShapeFromPoints(points, 3)

Figure_from_points(points) == ShapeFromPoints(points, 2)

\* Polygon::<OneColorLine, R>::new of polygon.rs, whose points are the i32 points of
\* line.rs: the edges are the lines OneColorLine::new rasterizes; ok = FALSE is
\* Err(NotEnoughPointsError)
Polygon_OneColorLine_new(points) ==
    IF Len(points) < 3 THEN [ok |-> FALSE, edges |-> <<>>]
    ELSE [ok |-> TRUE,
          edges |-> [i \in 1 .. Len(points) |->
                        OneColorLine_new(CyclicPairs(points)[i][1],
                                         CyclicPairs(points)[i][2]).points]]

\* Polygon::points / Shape::vertices: the first point of every edge, in edge order
vertices(edges) == [i \in 1 .. Len(edges) |-> first_point(edges[i])]

\* a faulty parity test: an even count means inside
Polygon_contains_even(edges, point) ==
    LET pairs == CyclicPairs(vertices(edges))
        straddling == {i \in 1 .. Len(pairs) :
                          RGt(pairs[i][1].y, point.y) # RGt(pairs[i][2].y, point.y)}
        intersect_x(i) ==
            LET slope == RDiv(RSub(pairs[i][2].x, pairs[i][1].x),
                              RSub(pairs[i][2].y, pairs[i][1].y))
            IN  RMulAdd(RSub(point.y, pairs[i][1].y), slope, pairs[i][1].x)
    IN  Cardinality({i \in straddling : RLt(point.x, intersect_x(i))}) % 2 = 0

\* a faulty count: a crossing at point.x itself is counted too
Polygon_contains_inclusive(edges, point) ==
    LET pairs == CyclicPairs(vertices(edges))
        straddling == {i \in 1 .. Len(pairs) :
                          RGt(pairs[i][1].y, point.y) # RGt(pairs[i][2].y, point.y)}
        intersect_x(i) ==
            LET slope == RDiv(RSub(pairs[i][2].x, pairs[i][1].x),
                              RSub(pairs[i][2].y, pairs[i][1].y))
            IN  RMulAdd(RSub(point.y, pairs[i][1].y), slope, pairs[i][1].x)
    IN  Cardinality({i \in straddling : ~RGt(point.x, intersect_x(i))}) % 2 = 1

\* Polygon::contains
Polygon_contains(edges, point) ==
    LET pairs == CyclicPairs(vertices(edges))
        straddling == {i \in 1 .. Len(pairs) :
                          RGt(pairs[i][1].y, point.y) # RGt(pairs[i][2].y, point.y)}
        intersect_x(i) ==
            LET slope == RDiv(RSub(pairs[i][2].x, pairs[i][1].x),
                              RSub(pairs[i][2].y, pairs[i][1].y))
            IN  RMulAdd(RSub(point.y, pairs[i][1].y), slope, pairs[i][1].x)
    IN  Cardinality({i \in straddling : RLt(point.x, intersect_x(i))}) % 2 = 1

\* Figure::contains
Figure_contains(edges, point) ==
    LET pairs == CyclicPairs(vertices(edges))
        straddling == {i \in 1 .. Len(pairs) :
                          RGt(pairs[i][1].y, point.y) # RGt(pairs[i][2].y, point.y)}
        x(i) ==
            LET t == RDiv(RSub(point.y, pairs[i][1].y),
                          RSub(pairs[i][2].y, pairs[i][1].y))
            IN  RMulAdd(t, RSub(pairs[i][2].x, pairs[i][1].x), pairs[i][1].x)
        count == Cardinality({i \in straddling : RLt(point.x, x(i))})
    IN  count % 2 = 1

\* slice::windows(2)
Windows2(seq) == [i \in 1 .. (Len(seq) - 1) |-> <<seq[i], seq[i + 1]>>]

\* |pair| pair.0.last_point() == pair.1.first_point()
Touch(pair) == PointEq(last_point(pair[1]), first_point(pair[2]))

\* new_from_lines with the check of windows(2) alone, the pair (last, first) left out
Polygon_new_from_lines_open(lines) ==
    IF Len(lines) < 3 THEN [ret |-> "NotEnoughLines", edges |-> <<>>]
    ELSE IF ~(\A i \in 1 .. (Len(lines) - 1) : Touch(Windows2(lines)[i]))
         THEN [ret |-> "LinesDontTouch", edges |-> <<>>]
    ELSE [ret |-> "Ok", edges |-> lines]

\* Polygon::new_from_lines(lines); a primitive is its point list
Polygon_new_from_lines(lines) ==
    IF Len(lines) < 3 THEN [ret |-> "NotEnoughLines", edges |-> <<>>]
    ELSE IF ~(\A i \in 1 .. Len(lines) : Touch(CyclicPairs(lines)[i]))
         THEN [ret |-> "LinesDontTouch", edges |-> <<>>]
    ELSE [ret |-> "Ok", edges |-> lines]

\* Figure::from_primitives(curves)
Figure_from_primitives(curves) ==
    IF Len(curves) = 0 THEN [ret |-> "Empty", edges |-> <<>>]
    ELSE IF Len(curves) = 1 /\ ~PointEq(first_point(curves[1]), last_point(curves[1]))
         THEN [ret |-> "NotTouching", edges |-> <<>>]
    ELSE IF Len(curves) > 1 /\ ~(\A i \in 1 .. Len(curves) : Touch(CyclicPairs(curves)[i]))
         THEN [ret |-> "NotTouching", edges |-> <<>>]
    ELSE [ret |-> "Ok", edges |-> curves]

-----------------------------------------------------------------------------
(* segment.rs: the line in general form and the clipper.                   *)

\* Line::new
Line_new(a, b, c) == [a |-> a, b |-> b, c |-> c]

\* a faulty new_from_points: b is end.x - start.x
Line_new_from_points_b_negated(start, end) ==
    Line_new(RSub(end.y, start.y),
             RSub(end.x, start.x),
             RMulAdd(end.x, start.y, RNeg(RMul(start.x, end.y))))

\* Line::new_from_points
Line_new_from_points(start, end) ==
    Line_new(RSub(end.y, start.y),
             RSub(start.x, end.x),
             RMulAdd(end.x, start.y, RNeg(RMul(start.x, end.y))))

\* From<OneColorSegment> for Line, of the segment that stores the points
Line_from(points) ==
    Line_new(RSub(last_point(points).y, first_point(points).y),
             RSub(first_point(points).x, last_point(points).x),
             RMulAdd(last_point(points).x, first_point(points).y,
                     RNeg(RMul(first_point(points).x, last_point(points).y))))

\* a * x + b * y + c as the clipper computes it for a vertex
Line_at(line, point) == RAdd(RMulAdd(line.a, point.x, RMul(line.b, point.y)), line.c)

\* a faulty intersection: y is divided by the divisor of x
Line_intersection_same_divisor(self, other) ==
    LET x == RDiv(RMulAdd(self.c, other.b, RNeg(RMul(other.c, self.b))),
                  RMulAdd(other.a, self.b, RNeg(RMul(self.a, other.b))))
        y == RDiv(RMulAdd(self.c, other.a, RNeg(RMul(other.c, self.a))),
                  RMulAdd(other.a, self.b, RNeg(RMul(self.a, other.b))))
    IN  Point(x, y)

\* Line::intersection
Line_intersection(self, other) ==
    LET x == RDiv(RMulAdd(self.c, other.b, RNeg(RMul(other.c, self.b))),
                  RMulAdd(other.a, self.b, RNeg(RMul(self.a, other.b))))
        y == RDiv(RMulAdd(self.c, other.a, RNeg(RMul(other.c, self.a))),
                  RMulAdd(self.a, other.b, RNeg(RMul(other.a, self.b))))
    IN  Point(x, y)

\* i32 `/`: the quotient rounded towards zero (b # 0)
i32_div(a, b) == ISignum(a) * ISignum(b) * (IAbs(a) \div IAbs(b))

\* LineGeneralForm::new, of line.rs
LineGeneralForm_new(a, b, c) == [a |-> a, b |-> b, c |-> c]

\* LineGeneralForm::new_from_points
LineGeneralForm_new_from_points(start, end) ==
    LineGeneralForm_new(end.y - start.y,
                        start.x - end.x,
                        end.x * start.y - start.x * end.y)

\* LineGeneralForm::intersection; panic = TRUE is "attempt to divide by zero"
LineGeneralForm_intersection(self, other) ==
    IF other.a * self.b - self.a * other.b = 0
    THEN [panic |-> TRUE, x |-> 0, y |-> 0]
    ELSE [panic |-> FALSE,
          x |-> i32_div(self.c * other.b - other.c * self.b,
                        other.a * self.b - self.a * other.b),
          y |-> i32_div(self.c * other.a - other.c * self.a,
                        self.a * other.b - other.a * self.b)]

\* the sign of a polygon vertex against the line, 2 for NaN
VertexSignum(line, point) ==
    RSignum(RAdd(RMulAdd(line.a, point.x, RMul(line.b, point.y)), line.c))

Ok(start, end) == [tag |-> "Ok", start |-> start, end |-> end]

Err(tag) == [tag |-> tag, start |-> Point(Rat(0, 0), Rat(0, 0)), end |-> Point(Rat(0, 0), Rat(0, 0))]

\* Option<bool>
NoBool == [some |-> FALSE, value |-> FALSE]

SomeBool(b) == [some |-> TRUE, value |-> b]

\* get_start_end_inside_polygon: the sign of every vertex against the line
vertex_signums(line, verts) == [i \in 1 .. Len(verts) |-> VertexSignum(line, verts[i])]

\* a faulty choice of edges: the pair (last, first) is left out
crossed_edges_open(signums) ==
    SelectSeq([i \in 1 .. (Len(signums) - 1) |-> i], LAMBDA i : signums[i] # signums[i + 1])

\* a faulty choice of edges: those whose two ends have the same sign
crossed_edges_same_sign(signums) ==
    SelectSeq([i \in 1 .. Len(signums) |-> i],
              LAMBDA i : CyclicPairs(signums)[i][1] = CyclicPairs(signums)[i][2])

\* get_start_end_inside_polygon: the edges whose two ends have different signs,
\* in edge order
crossed_edges(signums) ==
    SelectSeq([i \in 1 .. Len(signums) |-> i],
              LAMBDA i : CyclicPairs(signums)[i][1] # CyclicPairs(signums)[i][2])

\* get_start_end_inside_polygon: where the line meets the lines of those edges
edge_intersections(line, edges, crossed) ==
    [k \in 1 .. Len(crossed) |->
        Line_intersection(line,
            Line_new_from_points(first_point(edges[crossed[k]]),
                                 last_point(edges[crossed[k]])))]

\* the square of the distance from p to q
Distance2(p, q) == RAdd(RMul(RSub(q.x, p.x), RSub(q.x, p.x)), RMul(RSub(q.y, p.y), RSub(q.y, p.y)))

\* a different choice of the two endpoints: of the first two intersections the one
\* nearer to start comes first, so the result runs as the query does
choose_start_end_along(start, end, signums, intersections, contains_start, contains_end) ==
    IF \E i \in 1 .. Len(signums) : signums[i] = 2 THEN Err("InvalidSegments")
    ELSE IF Len(signums) >= 1 /\ \A i \in 2 .. Len(signums) : signums[i] = signums[1]
    THEN Err("Outside")
    ELSE IF ~contains_start /\ Len(intersections) < 1
    THEN Err("NotEnoughIntersections")
    ELSE IF ~contains_end /\ Len(intersections) < 2
    THEN Err("NotEnoughIntersections")
    ELSE IF Len(intersections) >= 2
            /\ RLt(Distance2(start, intersections[2]), Distance2(start, intersections[1]))
    THEN Ok(IF contains_start THEN start ELSE intersections[2],
            IF contains_end THEN end ELSE intersections[1])
    ELSE Ok(IF contains_start THEN start ELSE intersections[1],
            IF contains_end THEN end ELSE intersections[2])

\* get_start_end_inside_polygon: the errors and the choice of the two endpoints
choose_start_end(start, end, signums, intersections, contains_start, contains_end) ==
    IF \E i \in 1 .. Len(signums) : signums[i] = 2 THEN Err("InvalidSegments")
    ELSE IF Len(signums) >= 1 /\ \A i \in 2 .. Len(signums) : signums[i] = signums[1]
    THEN Err("Outside")
    ELSE IF ~contains_start /\ Len(intersections) < 1
    THEN Err("NotEnoughIntersections")
    ELSE IF ~contains_end /\ Len(intersections) < 2
    THEN Err("NotEnoughIntersections")
    ELSE Ok(IF contains_start THEN start ELSE intersections[1],
            IF contains_end THEN end ELSE intersections[2])

\* get_start_end_inside_polygon after the early return
get_start_end_by_crossings(start, end, edges, polygon_contains_start, known_contains_end) ==
    choose_start_end(
        start, end,
        vertex_signums(Line_new_from_points(start, end), vertices(edges)),
        edge_intersections(
            Line_new_from_points(start, end), edges,
            crossed_edges(vertex_signums(Line_new_from_points(start, end), vertices(edges)))),
        polygon_contains_start,
        IF known_contains_end.some THEN known_contains_end.value
        ELSE Polygon_contains(edges, end))

\* a faulty clipper: the early return for a segment with both ends inside is missing
get_start_end_no_early_return(start, end, edges, polygon_contains_start, known_contains_end) ==
    get_start_end_by_crossings(start, end, edges, polygon_contains_start, known_contains_end)

\* get_start_end_inside_polygon from the early return on
get_start_end_early_return(start, end, edges, polygon_contains_start, known_contains_end) ==
    IF polygon_contains_start /\ known_contains_end.value
    THEN Ok(start, end)
    ELSE get_start_end_by_crossings(start, end, edges, polygon_contains_start,
                                    known_contains_end)

\* get_start_end_inside_polygon once start is tested: end is tested only when start
\* is inside
get_start_end_start_tested(start, end, edges, polygon_contains_start) ==
    get_start_end_early_return(
        start, end, edges, polygon_contains_start,
        IF polygon_contains_start THEN SomeBool(Polygon_contains(edges, end)) ELSE NoBool)

\* OneColorSegment::get_start_end_inside_polygon
get_start_end_inside_polygon(start, end, edges) ==
    get_start_end_start_tested(start, end, edges, Polygon_contains(edges, start))

\* OneColorSegment::new_inside_polygon, given the result r of the clip: r and, when
\* it is Ok, the points of the new segment
new_inside_polygon_from(r, seg) ==
    IF r.tag = "Ok"
    THEN [ret |-> r, points |-> seg.points, finished |-> seg.finished]
    ELSE [ret |-> r, points |-> <<>>, finished |-> TRUE]

\* OneColorSegment::new_inside_polygon
new_inside_polygon(start, end, edges) ==
    CHOOSE out \in {new_inside_polygon_from(r, OneColorSegment_new(r.start, r.end)) :
                       r \in {get_start_end_inside_polygon(start, end, edges)}} : TRUE

\* Iterator::position / rposition over the stored points
Matching(points, start, end) ==
    {i \in 1 .. Len(points) : PointEq(points[i], start) \/ PointEq(points[i], end)}

Lowest(S) == CHOOSE i \in S : \A j \in S : i <= j

Highest(S) == CHOOSE i \in S : \A j \in S : i >= j

\* a faulty second search: it skips the point the first search found
cut_tail_after_first(drained, r) ==
    IF Matching(Tail(drained), r.end, r.start) = {}
    THEN [ret |-> [r EXCEPT !.tag = "InvalidIntersection"], points |-> drained]
    ELSE [ret |-> r,
          points |-> SubSeq(drained, 1, 1 + Highest(Matching(Tail(drained), r.end, r.start)))]

\* OneColorSegment::cut_inside_polygon after the second search, on the points left
\* by the first drain
cut_tail(drained, r) ==
    IF Matching(drained, r.end, r.start) = {}
    THEN [ret |-> [r EXCEPT !.tag = "InvalidIntersection"], points |-> drained]
    ELSE [ret |-> r,
          points |-> SubSeq(drained, 1, Highest(Matching(drained, r.end, r.start)))]

\* OneColorSegment::cut_inside_polygon, given the result r of the clip
cut_from(points, r) ==
    IF r.tag # "Ok" THEN [ret |-> r, points |-> points]
    ELSE IF Matching(points, r.start, r.end) = {}
    THEN [ret |-> [r EXCEPT !.tag = "InvalidIntersection"], points |-> points]
    ELSE cut_tail(SubSeq(points, Lowest(Matching(points, r.start, r.end)), Len(points)), r)

\* OneColorSegment::cut_inside_polygon on the stored points: the result and the
\* points stored afterwards
cut_inside_polygon(points, edges) ==
    CHOOSE out \in {cut_from(points, r) :
                       r \in {get_start_end_inside_polygon(first_point(points),
                                                           last_point(points), edges)}} : TRUE

-----------------------------------------------------------------------------
(* line.rs: the i32 clipper of OneColorLine.  The polygon is the one of    *)
(* polygon.rs; start, end and the points of its edges are whole.           *)

\* OneColorLine::get_start_end_inside_polygon: the sign of every vertex against the
\* line, -1, 0 or 1
OneColorLine_signums(general_form, points) ==
    [i \in 1 .. Len(points) |->
        ISignum(general_form.a * AsIPoint(points[i]).x
                + general_form.b * AsIPoint(points[i]).y
                + general_form.c)]

\* OneColorLine::get_start_end_inside_polygon: where the line meets the lines of
\* the crossed edges, or the panic of a division by zero
OneColorLine_intersections(general_form, edges, crossed) ==
    [k \in 1 .. Len(crossed) |->
        LineGeneralForm_intersection(general_form,
            LineGeneralForm_new_from_points(AsIPoint(first_point(edges[crossed[k]])),
                                            AsIPoint(last_point(edges[crossed[k]]))))]

\* OneColorLine::get_start_end_inside_polygon: the errors and the choice of the two
\* endpoints; the intersections are all computed before they are counted
OneColorLine_choose_start_end(start, end, signums, intersections, contains_start, contains_end) ==
    IF Len(signums) >= 1 /\ \A i \in 2 .. Len(signums) : signums[i] = signums[1]
    THEN Err("Outside")
    ELSE IF \E k \in 1 .. Len(intersections) : intersections[k].panic
    THEN Err("panic")
    ELSE IF Len(intersections) # 2
    THEN Err("NotEnoughIntersections")
    ELSE Ok(IF contains_start THEN start ELSE PointFromInts(intersections[1].x, intersections[1].y),
            IF contains_end THEN end ELSE PointFromInts(intersections[2].x, intersections[2].y))

\* OneColorLine::get_start_end_inside_polygon once the line and the signs are known
OneColorLine_clip_signed(start, end, edges, general_form, signums) ==
    IF Polygon_contains(edges, start) /\ Polygon_contains(edges, end)
    THEN Ok(start, end)
    ELSE OneColorLine_choose_start_end(
             start, end, signums,
             OneColorLine_intersections(general_form, edges, crossed_edges(signums)),
             Polygon_contains(edges, start), Polygon_contains(edges, end))

\* OneColorLine::get_start_end_inside_polygon
OneColorLine_get_start_end_inside_polygon(start, end, edges) ==
    CHOOSE r \in
        UNION {{OneColorLine_clip_signed(start, end, edges, general_form, signums) :
                   signums \in {OneColorLine_signums(general_form, vertices(edges))}} :
               general_form \in {LineGeneralForm_new_from_points(AsIPoint(start),
                                                                 AsIPoint(end))}} : TRUE

\* OneColorLine::new_inside_polygon: the result of the clip and, when it is Ok, the
\* points of the new line
OneColorLine_new_inside_polygon(start, end, edges) ==
    CHOOSE out \in
        {IF r.tag = "Ok"
         THEN [ret |-> r, points |-> OneColorLine_new(AsIPoint(r.start), AsIPoint(r.end)).points]
         ELSE [ret |-> r, points |-> <<>>] :
            r \in {OneColorLine_get_start_end_inside_polygon(start, end, edges)}} : TRUE

-----------------------------------------------------------------------------
(* curve.rs: the parametric sampler.                                       *)

\* the closures given as x_fn and y_fn: t |-> m * t + c
Linear(m, c) == [m |-> FromInt(m), c |-> FromInt(c)]

\* a faulty h0, without the constant term
basis_h0_without_one(t) == RSub(RMul(FromInt(2), RMul(t, RMul(t, t))), RMul(FromInt(3), RMul(t, t)))

\* HermiteArc::basis_h0
basis_h0(t) ==
    RAdd(RSub(RMul(RMul(RMul(FromInt(2), t), t), t), RMul(RMul(FromInt(3), t), t)), FromInt(1))

\* HermiteArc::basis_h1
basis_h1(t) == RAdd(RMul(RMul(RMul(FromInt(-2), t), t), t), RMul(RMul(FromInt(3), t), t))

\* HermiteArc::basis_h2
basis_h2(t) == RAdd(RSub(RMul(RMul(t, t), t), RMul(RMul(FromInt(2), t), t)), t)

\* HermiteArc::basis_h3
basis_h3(t) == RSub(RMul(RMul(t, t), t), RMul(t, t))

\* the closures TryFrom<HermiteArc> gives as x_fn and y_fn, at t: start, start_tangent,
\* end and end_tangent are one coordinate of those of the arc
HermiteAt(start, start_tangent, end, end_tangent, t) ==
    RMulAdd(basis_h3(t), end_tangent,
            RMulAdd(basis_h2(t), start_tangent,
                    RMulAdd(basis_h0(t), start, RMul(basis_h1(t), end))))

\* the times new_parametric samples on [0, 1] in n > 0 segments
HermiteTimes(n) == {Rat(k, n) : k \in 0 .. n}

\* such a closure, as the table of its values at the times it is called with
HermiteFn(start, start_tangent, end, end_tangent, n) ==
    [table |-> [t \in HermiteTimes(n) |-> HermiteAt(start, start_tangent, end, end_tangent, t)]]

\* x_fn(t), y_fn(t)
Apply(f, t) == IF "m" \in DOMAIN f THEN RMulAdd(f.m, t, f.c) ELSE f.table[t]

\* Option<i32>
None == [some |-> FALSE, value |-> 0]

Some(v) == [some |-> TRUE, value |-> v]

DEFAULT_NUM_SEGMENTS == 500

unwrap_or(option, default) == IF option.some THEN option.value ELSE default

\* OneColorCurve::new_parametric, the test of the while loop
new_parametric_condition(t, end) == RGt(RAbs(RSub(t, end)), SMALL_ERROR_MARGIN)

\* OneColorCurve::new_parametric, the body of the while loop after t += h: the
\* segment from the point of the step before to the point `last` of this one
new_parametric_extend(st, t, last) ==
    CHOOSE next \in
        {[t |-> t, first_point |-> last,
          points |-> st.points \o segment.points,
          finished |-> segment.finished,
          steps |-> st.steps + 1] :
            segment \in {OneColorSegment_new(st.first_point, last)}} : TRUE

\* OneColorCurve::new_parametric, the body of the while loop after t += h
new_parametric_sample(st, x_fn, y_fn, t) ==
    CHOOSE next \in {new_parametric_extend(st, t, last) :
                        last \in {Point(Apply(x_fn, t), Apply(y_fn, t))}} : TRUE

\* OneColorCurve::new_parametric, the body of the while loop: a step of t, and the
\* segment from the point of the step before to the point of this one
new_parametric_body(st, x_fn, y_fn, h) ==
    CHOOSE next \in {new_parametric_sample(st, x_fn, y_fn, t) : t \in {RAdd(st.t, h)}} : TRUE

\* OneColorCurve::new_parametric, Ok(Self { color, points }) after the loop left
\* the state r
new_parametric_ok(r, end) ==
    [ok |-> TRUE, points |-> r.points,
     finished |-> r.finished /\ ~new_parametric_condition(r.t, end),
     steps |-> r.steps]

\* OneColorCurve::new_parametric; ok = FALSE is Err(WrongInterval), finished = FALSE
\* is a loop that is still running after 1024 samples or 256 steps of a segment,
\* steps is the number of times the body of the while loop was entered
new_parametric(x_fn, y_fn, start, end, num_segments) ==
    IF ~RGt(end, start) THEN [ok |-> FALSE, points |-> <<>>, finished |-> TRUE, steps |-> 0]
    ELSE CHOOSE curve \in UNION
            {{new_parametric_ok(r, end) :
                r \in {While1024(LAMBDA st : st.finished /\ new_parametric_condition(st.t, end),
                                 LAMBDA st : new_parametric_body(st, x_fn, y_fn, h),
                                 [t |-> start,
                                  first_point |-> Point(Apply(x_fn, start), Apply(y_fn, start)),
                                  points |-> <<>>,
                                  finished |-> TRUE,
                                  steps |-> 0])}} :
                h \in {RDiv(RSub(end, start),
                            FromInt(unwrap_or(num_segments, DEFAULT_NUM_SEGMENTS)))}} : TRUE

\* the closure given as curve: (x, y) |-> (a * x + b * y + c) / den
Implicit(a, b, c, den) == [a |-> FromInt(a), b |-> FromInt(b), c |-> FromInt(c), den |-> FromInt(den)]

Apply2(f, x, y) == RDiv(RAdd(RMulAdd(f.a, x, RMul(f.b, y)), f.c), f.den)

\* OneColorCurve::new_implicit, the test of a grid point
new_implicit_test(curve, i, j) ==
    RLt(RAbs(Apply2(curve, FromInt(i), FromInt(j))), SMALL_ERROR_MARGIN)

\* OneColorCurve::new_implicit, one pass of `for j in 0..height` at the given i;
\* st is the counter j and the points pushed so far
new_implicit_inner(curve, i, height, points) ==
    While1024(LAMBDA st : st.j < height,
              LAMBDA st : [j |-> st.j + 1,
                           points |-> IF new_implicit_test(curve, i, st.j)
                                      THEN Append(st.points, PointFromInts(i, st.j))
                                      ELSE st.points],
              [j |-> 0, points |-> points]).points

\* new_implicit with the two loops exchanged: `for j in 0..height` outside
new_implicit_j_outside(curve, width, height) ==
    While1024(LAMBDA st : st.j < height,
              LAMBDA st : [j |-> st.j + 1,
                           points |-> While1024(LAMBDA cell : cell.i < width,
                                                LAMBDA cell : [i |-> cell.i + 1,
                                                             points |-> IF new_implicit_test(curve, cell.i, st.j)
                                                                        THEN Append(cell.points, PointFromInts(cell.i, st.j))
                                                                        ELSE cell.points],
                                                [i |-> 0, points |-> st.points]).points],
              [j |-> 0, points |-> <<>>]).points

\* OneColorCurve::new_implicit(curve, color, width, height): the points of the curve
new_implicit(curve, width, height) ==
    While1024(LAMBDA st : st.i < width,
              LAMBDA st : [i |-> st.i + 1,
                           points |-> new_implicit_inner(curve, st.i, height, st.points)],
              [i |-> 0, points |-> <<>>]).points

RECURSIVE flat_map_points(_)
\* segments.iter().flat_map(|s| s.points().iter().copied()).collect()
flat_map_points(segments) ==
    IF segments = <<>> THEN <<>>
    ELSE Head(segments) \o flat_map_points(Tail(segments))

\* new_from_segments with the pair (last, first) checked as well
new_from_segments_closed(segments) ==
    IF Len(segments) < 2 THEN [ret |-> "NotEnough", points |-> <<>>]
    ELSE IF ~(\A i \in 1 .. Len(segments) : Touch(CyclicPairs(segments)[i]))
         THEN [ret |-> "NotTouching", points |-> <<>>]
    ELSE [ret |-> "Ok", points |-> flat_map_points(segments)]

\* OneColorCurve::new_from_segments(segments, color)
new_from_segments(segments) ==
    IF Len(segments) < 2 THEN [ret |-> "NotEnough", points |-> <<>>]
    ELSE IF ~(\A i \in 1 .. (Len(segments) - 1) : Touch(Windows2(segments)[i]))
         THEN [ret |-> "NotTouching", points |-> <<>>]
    ELSE [ret |-> "Ok", points |-> flat_map_points(segments)]

\* HermiteArc::new; the color is left out
HermiteArc(start, start_tangent, end, end_tangent, num_segments) ==
    [start |-> start, start_tangent |-> start_tangent, end |-> end,
     end_tangent |-> end_tangent, num_segments |-> num_segments]

\* <OneColorCurve as TryFrom<HermiteArc>>::try_from
try_from(value) ==
    CHOOSE curve \in
        {new_parametric(x_fn, y_fn, FromInt(0), FromInt(1), value.num_segments) :
            x_fn \in {HermiteFn(value.start.x, value.start_tangent.x, value.end.x, value.end_tangent.x,
                                unwrap_or(value.num_segments, DEFAULT_NUM_SEGMENTS))},
            y_fn \in {HermiteFn(value.start.y, value.start_tangent.y, value.end.y, value.end_tangent.y,
                                unwrap_or(value.num_segments, DEFAULT_NUM_SEGMENTS))}} : TRUE

\* HermiteArcFigureBuilder::build, the arc that closes the figure
closing_arc(arcs) ==
    HermiteArc(arcs[Len(arcs)].end, arcs[Len(arcs)].end_tangent,
               arcs[1].start, arcs[1].start_tangent, arcs[Len(arcs)].num_segments)

\* .collect::<Result<_, _>>()? and Ok(Figure { edges }): the curves are the edges
collect_curves(curves) ==
    IF \E i \in 1 .. Len(curves) : ~curves[i].ok
    THEN [ret |-> "WrongInterval", edges |-> <<>>, finished |-> TRUE]
    ELSE [ret |-> "Ok", edges |-> [i \in 1 .. Len(curves) |-> curves[i].points],
          finished |-> \A i \in 1 .. Len(curves) : curves[i].finished]

RECURSIVE map_try_from(_)
\* .map(OneColorCurve::try_from), before the results are collected
map_try_from(arcs) ==
    IF arcs = <<>> THEN <<>>
    ELSE <<try_from(Head(arcs))>> \o map_try_from(Tail(arcs))

\* HermiteArcFigureBuilder::build, of the builder that holds arcs
HermiteArcFigureBuilder_build(arcs) ==
    IF Len(arcs) < 2 THEN [ret |-> "NotEnoughArcs", edges |-> <<>>, finished |-> TRUE]
    ELSE CHOOSE out \in {collect_curves(curves) :
                            curves \in {map_try_from(arcs \o <<closing_arc(arcs)>>)}} : TRUE

-----------------------------------------------------------------------------
(* lib.rs, sdl2.rs: the renderer; segment.rs, curve.rs, line.rs, figure.rs,*)
(* polygon.rs: render.  A renderer holds its draw color; it is modelled    *)
(* with the calls that changed or used it, and with the number of          *)
(* draw_points calls that succeed before one returns Err(DrawError).       *)

Renderer(color, budget) == [color |-> color, log |-> <<>>, budget |-> budget]

\* Renderer::set_color
set_color(ren, color) ==
    [ren EXCEPT !.color = color,
                !.log = Append(@, [call |-> "set_color", color |-> color, points |-> <<>>, ok |-> TRUE])]

\* Renderer::current_color
current_color(ren) == ren.color

\* Renderer::draw_points: Ok(()) or Err(DrawError), in the color that is set
draw_points(ren, points) ==
    [ok |-> ren.budget > 0,
     ren |-> [ren EXCEPT !.budget = IF @ > 0 THEN @ - 1 ELSE 0,
                         !.log = Append(@, [call |-> "draw_points", color |-> ren.color,
                                            points |-> points, ok |-> ren.budget > 0])]]

\* what render returns after draw_points returned d
render_drawn(d, old_color) ==
    IF ~d.ok THEN [ret |-> "Draw", ren |-> d.ren]
    ELSE [ret |-> "Ok", ren |-> set_color(d.ren, old_color)]

\* a render that sets the color before it looks at the points
render_color_first(self, ren) ==
    IF self.points = <<>> THEN [ret |-> "Empty", ren |-> set_color(ren, self.color)]
    ELSE render_drawn(draw_points(set_color(ren, self.color), self.points), current_color(ren))

\* a render that leaves the color of the primitive set
render_color_kept(self, ren) ==
    IF self.points = <<>> THEN [ret |-> "Empty", ren |-> ren]
    ELSE render_drawn(draw_points(set_color(ren, self.color), self.points), self.color)

\* <OneColorSegment as Renderable>::render; self is [kind, color, points]
OneColorSegment_render(self, ren) ==
    IF self.points = <<>> THEN [ret |-> "Empty", ren |-> ren]
    ELSE render_drawn(draw_points(set_color(ren, self.color), self.points), current_color(ren))

\* <OneColorCurve as Renderable>::render
OneColorCurve_render(self, ren) ==
    IF self.points = <<>> THEN [ret |-> "Empty", ren |-> ren]
    ELSE render_drawn(draw_points(set_color(ren, self.color), self.points), current_color(ren))

\* <OneColorLine as Renderable>::render
OneColorLine_render(self, ren) ==
    IF self.points = <<>> THEN [ret |-> "Empty", ren |-> ren]
    ELSE render_drawn(draw_points(set_color(ren, self.color), self.points), current_color(ren))

\* edge.render(renderer) of an edge of a shape: a segment, a curve or a line
Edge_render(edge, ren) ==
    IF edge.kind = "curve" THEN OneColorCurve_render(edge, ren)
    ELSE IF edge.kind = "line" THEN OneColorLine_render(edge, ren)
    ELSE OneColorSegment_render(edge, ren)

RECURSIVE render_every_edge(_, _, _)
\* a render of a shape that goes on after an edge failed; last is the first error
render_every_edge(edges, ren, last) ==
    IF edges = <<>> THEN [ret |-> last, ren |-> ren]
    ELSE render_every_edge(Tail(edges), Edge_render(Head(edges), ren).ren,
                           IF last # "Ok" THEN last ELSE Edge_render(Head(edges), ren).ret)

RECURSIVE render_edges(_, _, _)
\* `for edge in edges { edge.render(renderer)?; } Ok(())`; last is what the
\* render of the edge before returned
render_edges(edges, ren, last) ==
    IF last # "Ok" THEN [ret |-> last, ren |-> ren]
    ELSE IF edges = <<>> THEN [ret |-> "Ok", ren |-> ren]
    ELSE render_edges(Tail(edges), Edge_render(Head(edges), ren).ren,
                      Edge_render(Head(edges), ren).ret)

\* <Figure as Renderable>::render
Figure_render(edges, ren) == render_edges(edges, ren, "Ok")

\* <Polygon as Renderable>::render
Polygon_render(edges, ren) == render_edges(edges, ren, "Ok")

-----------------------------------------------------------------------------
(* Each harness below is a specification of its own over all the variables:*)
(* it holds the variables of the other harnesses at the values given here. *)

NoOutput == [ok |-> FALSE, points |-> <<>>, finished |-> FALSE]

NoCurve == [ok |-> FALSE, points |-> <<>>, finished |-> FALSE, steps |-> 0]

NotBuilt == [ret |-> "none", edges |-> <<>>, points |-> <<>>]

NoResult == [line |-> <<>>, point |-> <<>>, vals |-> <<>>, panic |-> FALSE]

\* no constructor is called: the raster harness is not used
RasterOff ==
    /\ rKind = "none" /\ rStart = IPoint(0, 0) /\ rEnd = IPoint(0, 0)
    /\ rPc = "off" /\ rOut = NoOutput

\* no shape and no segment: the clip harness is not used
ClipOff ==
    /\ shape = "none" /\ shapeEdges = <<>> /\ segPoints = <<>>
    /\ cOp = "none" /\ cStart = PointFromInts(0, 0) /\ cEnd = PointFromInts(0, 0)
    /\ cRet = Err("none") /\ cBefore = <<>> /\ cPc = "off"

\* no curve is asked for: the curve harness is not used
CurveOff ==
    /\ qXfn = Linear(0, 0) /\ qYfn = Linear(0, 0)
    /\ qStart = FromInt(0) /\ qEnd = FromInt(0)
    /\ qSegments = None
    /\ qPc = "off" /\ qOut = NoCurve

\* no implicit curve is asked for: the implicit harness is not used
ImplicitOff ==
    /\ iCurve = Implicit(0, 0, 0, 1) /\ iWidth = 0 /\ iHeight = 0
    /\ iPc = "off" /\ iOut = <<>>

\* no constructor of a shape or curve is called: the build harness is not used
BuildOff ==
    /\ bOp = "none" /\ bPoints = <<>> /\ bPrims = <<>> /\ bArcs = <<>>
    /\ bPc = "off" /\ bOut = NotBuilt

\* nothing is rendered: the render harness is not used
RenderOff ==
    /\ nOp = "none" /\ nPrims = <<>>
    /\ nRen = Renderer("BLACK", 0) /\ nBefore = Renderer("BLACK", 0)
    /\ nRet = "none" /\ nPc = "off"

\* no function of the lines or of the arcs is called: the algebra harness is not used
AlgebraOff ==
    /\ aOp = "none" /\ aPoints = <<>> /\ aLines = <<>> /\ aNums = <<>> /\ aSeg = <<>>
    /\ aOut = NoResult /\ aPc = "off"

RasterAlone == ClipOff /\ CurveOff /\ ImplicitOff /\ BuildOff /\ RenderOff /\ AlgebraOff

ClipAlone == RasterOff /\ CurveOff /\ ImplicitOff /\ BuildOff /\ RenderOff /\ AlgebraOff

CurveAlone == RasterOff /\ ClipOff /\ ImplicitOff /\ BuildOff /\ RenderOff /\ AlgebraOff

ImplicitAlone == RasterOff /\ ClipOff /\ CurveOff /\ BuildOff /\ RenderOff /\ AlgebraOff

BuildAlone == RasterOff /\ ClipOff /\ CurveOff /\ ImplicitOff /\ RenderOff /\ AlgebraOff

RenderAlone == RasterOff /\ ClipOff /\ CurveOff /\ ImplicitOff /\ BuildOff /\ AlgebraOff

AlgebraAlone == RasterOff /\ ClipOff /\ CurveOff /\ ImplicitOff /\ BuildOff /\ RenderOff

-----------------------------------------------------------------------------
(* The raster harness: a caller picks two grid points and calls one of the *)
(* four segment constructors.                                              *)

Grid == (-MaxCoord) .. MaxCoord

GridPoints == {IPoint(i, j) : i \in Grid, j \in Grid}

\* the harness records the i32 points of line.rs as the whole f64 points that
\* From<(i32, i32)> for Point gives, so that rOut has one shape
Recorded(points) == [i \in 1 .. Len(points) |-> PointFromInts(points[i].x, points[i].y)]

RasterInit ==
    /\ rKind = "none"
    /\ rStart \in GridPoints
    /\ rEnd \in GridPoints
    /\ rPc = "call"
    /\ rOut = NoOutput
    /\ RasterAlone

\* OneColorLine::new(start, end, color)
CallOneColorLineNew ==
    /\ rPc = "call"
    /\ LET r == OneColorLine_new(rStart, rEnd)
       IN  rOut' = [ok |-> TRUE, points |-> Recorded(r.points), finished |-> r.finished]
    /\ rKind' = "OneColorLine::new"
    /\ rPc' = "done"
    /\ UNCHANGED <<rStart, rEnd, notRasterVars>>

\* OneColorLine::new_45_deg(start, end, color)
CallOneColorLineNew45Deg ==
    /\ rPc = "call"
    /\ LET r == OneColorLine_new_45_deg(rStart, rEnd)
       IN  rOut' = [ok |-> TRUE, points |-> Recorded(r.points), finished |-> r.finished]
    /\ rKind' = "OneColorLine::new_45_deg"
    /\ rPc' = "done"
    /\ UNCHANGED <<rStart, rEnd, notRasterVars>>

\* OneColorSegment::new(start.into(), end.into(), color)
CallOneColorSegmentNew ==
    /\ rPc = "call"
    /\ LET r == OneColorSegment_new(PointFromInts(rStart.x, rStart.y),
                                    PointFromInts(rEnd.x, rEnd.y))
       IN  rOut' = [ok |-> TRUE, points |-> r.points, finished |-> r.finished]
    /\ rKind' = "OneColorSegment::new"
    /\ rPc' = "done"
    /\ UNCHANGED <<rStart, rEnd, notRasterVars>>

\* OneColorSegment::new_45_deg(start.into(), end.into(), color)
CallOneColorSegmentNew45Deg ==
    /\ rPc = "call"
    /\ rOut' = OneColorSegment_new_45_deg(PointFromInts(rStart.x, rStart.y),
                                          PointFromInts(rEnd.x, rEnd.y))
    /\ rKind' = "OneColorSegment::new_45_deg"
    /\ rPc' = "done"
    /\ UNCHANGED <<rStart, rEnd, notRasterVars>>

RasterNext ==
    \/ CallOneColorLineNew
    \/ CallOneColorLineNew45Deg
    \/ CallOneColorSegmentNew
    \/ CallOneColorSegmentNew45Deg

SpecRaster == RasterInit /\ [][RasterNext]_vars

-----------------------------------------------------------------------------
(* The clip harness: a closed shape is built from a list of vertices; a    *)
(* caller then asks whether it contains a point, or builds a segment       *)
(* clipped to it, or builds a segment and cuts it.                         *)

Square05 == <<PointFromInts(0, 0), PointFromInts(0, 5), PointFromInts(5, 5), PointFromInts(5, 0)>>

SmallSquare == <<PointFromInts(2, 2), PointFromInts(2, 4), PointFromInts(4, 4), PointFromInts(4, 2)>>

Triangle == <<PointFromInts(1, 1), PointFromInts(5, 2), PointFromInts(2, 5)>>

Dart == <<PointFromInts(0, 0), PointFromInts(5, 0), PointFromInts(2, 2), PointFromInts(0, 5)>>

\* the square of tests/common/mod.rs
BigSquare ==
    <<PointFromInts(100, 100), PointFromInts(100, 200), PointFromInts(200, 200), PointFromInts(200, 100)>>

Shapes == {Square05, SmallSquare, Triangle, Dart, BigSquare}

\* the segments the tests clip to the big square, and some more on the same lines
BigSquareSegments ==
    {<<PointFromInts(50, 150), PointFromInts(250, 150)>>,
     <<PointFromInts(150, 50), PointFromInts(150, 250)>>,
     <<PointFromInts(500, 500), PointFromInts(500, 600)>>,
     <<PointFromInts(125, 150), PointFromInts(175, 150)>>,
     <<PointFromInts(50, 150), PointFromInts(60, 150)>>,
     <<PointFromInts(150, 150), PointFromInts(50, 150)>>,
     <<PointFromInts(250, 150), PointFromInts(50, 150)>>}

ClipGridPoints == {PointFromInts(i, j) : i \in 0 .. MaxClipCoord, j \in 0 .. MaxClipCoord}

\* the points a caller asks about: one step beyond the clip grid
ContainsPoints(verts) ==
    IF verts = BigSquare THEN {s[1] : s \in BigSquareSegments} \cup {s[2] : s \in BigSquareSegments}
    ELSE {PointFromInts(i, j) : i \in 0 .. (MaxClipCoord + 1), j \in 0 .. (MaxClipCoord + 1)}

\* the segments a caller clips
ClipSegments(verts) ==
    IF verts = BigSquare THEN BigSquareSegments ELSE ClipGridPoints \X ClipGridPoints

ClipInit ==
    /\ shape \in {"Polygon", "Figure"}
    /\ \E verts \in Shapes :
          shapeEdges = IF shape = "Polygon" THEN Polygon_new(verts).edges
                  ELSE Figure_from_points(verts).edges
    /\ segPoints = <<>>
    /\ cOp = "none" /\ cStart = PointFromInts(0, 0) /\ cEnd = PointFromInts(0, 0)
    /\ cRet = Err("none") /\ cBefore = <<>>
    /\ cPc = "ready"
    /\ ClipAlone

Answer(b) == Err(IF b THEN "true" ELSE "false")

\* polygon.contains(point)
CallPolygonContains ==
    /\ cPc = "ready" /\ shape = "Polygon"
    /\ \E p \in ContainsPoints(vertices(shapeEdges)) :
          /\ cStart' = p
          /\ cRet' = Answer(Polygon_contains(shapeEdges, p))
    /\ cOp' = "Polygon::contains"
    /\ cPc' = "done"
    /\ UNCHANGED <<shape, shapeEdges, segPoints, cEnd, cBefore, notClipVars>>

\* figure.contains(point)
CallFigureContains ==
    /\ cPc = "ready" /\ shape = "Figure"
    /\ \E p \in ContainsPoints(vertices(shapeEdges)) :
          /\ cStart' = p
          /\ cRet' = Answer(Figure_contains(shapeEdges, p))
    /\ cOp' = "Figure::contains"
    /\ cPc' = "done"
    /\ UNCHANGED <<shape, shapeEdges, segPoints, cEnd, cBefore, notClipVars>>

\* OneColorSegment::new_inside_polygon(start, end, color, &polygon)
CallNewInsidePolygon ==
    /\ cPc = "ready" /\ shape = "Polygon"
    /\ \E s \in ClipSegments(vertices(shapeEdges)) :
          LET r == new_inside_polygon(s[1], s[2], shapeEdges)
          IN  /\ cStart' = s[1]
              /\ cEnd' = s[2]
              /\ cRet' = r.ret
              /\ segPoints' = r.points
    /\ cOp' = "new_inside_polygon"
    /\ cPc' = "done"
    /\ UNCHANGED <<shape, shapeEdges, cBefore, notClipVars>>

\* OneColorLine::new_inside_polygon(start, end, color, &polygon)
CallOneColorLineNewInsidePolygon ==
    /\ cPc = "ready" /\ shape = "Polygon"
    /\ \E s \in ClipSegments(vertices(shapeEdges)) :
          \E r \in {OneColorLine_new_inside_polygon(s[1], s[2], shapeEdges)} :
              /\ cStart' = s[1]
              /\ cEnd' = s[2]
              /\ cRet' = r.ret
              /\ segPoints' = Recorded(r.points)
    /\ cOp' = "OneColorLine::new_inside_polygon"
    /\ cPc' = "done"
    /\ UNCHANGED <<shape, shapeEdges, cBefore, notClipVars>>

\* OneColorSegment::new(start, end, color), of a segment that is to be cut
CallNew ==
    /\ cPc = "ready" /\ shape = "Polygon"
    /\ \E s \in ClipSegments(vertices(shapeEdges)) :
          /\ cStart' = s[1]
          /\ cEnd' = s[2]
          /\ segPoints' = OneColorSegment_new(s[1], s[2]).points
    /\ cOp' = "new"
    /\ cPc' = "built"
    /\ UNCHANGED <<shape, shapeEdges, cRet, cBefore, notClipVars>>

\* segment.cut_inside_polygon(&polygon)
CallCutInsidePolygon ==
    /\ cPc = "built"
    /\ LET r == cut_inside_polygon(segPoints, shapeEdges)
       IN  /\ cRet' = r.ret
           /\ segPoints' = r.points
    /\ cStart' = first_point(segPoints)
    /\ cEnd' = last_point(segPoints)
    /\ cBefore' = segPoints
    /\ cOp' = "cut_inside_polygon"
    /\ cPc' = "done"
    /\ UNCHANGED <<shape, shapeEdges, notClipVars>>

ClipNext ==
    \/ CallPolygonContains
    \/ CallFigureContains
    \/ CallNewInsidePolygon
    \/ CallOneColorLineNewInsidePolygon
    \/ CallNew
    \/ CallCutInsidePolygon

SpecClip == ClipInit /\ [][ClipNext]_vars

-----------------------------------------------------------------------------
(* The rectangle harness: the shape is a rectangle with sides along the    *)
(* axes, given from any corner and in either winding; a caller asks        *)
(* whether it contains a point.                                            *)

\* the corners of the rectangle [x0, x1] x [y0, y1], from (x0, y0) upwards
Corners(x0, y0, x1, y1) ==
    <<PointFromInts(x0, y0), PointFromInts(x0, y1), PointFromInts(x1, y1), PointFromInts(x1, y0)>>

\* the same corners from corner k + 1 on, and in the other winding
Rotated(corners, k) == [i \in 1 .. 4 |-> corners[((i + k - 1) % 4) + 1]]

Reversed4(corners) == [i \in 1 .. 4 |-> corners[5 - i]]

Rectangles ==
    UNION {{Rotated(Corners(x0, y0, x0 + w, y0 + h), k),
            Rotated(Reversed4(Corners(x0, y0, x0 + w, y0 + h)), k)} :
              x0 \in 0 .. (MaxRect - 1), y0 \in 0 .. (MaxRect - 1),
              w \in 1 .. MaxRect, h \in 1 .. MaxRect, k \in 0 .. 3}

RectInit ==
    /\ shape \in {"Polygon", "Figure"}
    /\ \E verts \in Rectangles :
          shapeEdges = IF shape = "Polygon" THEN Polygon_new(verts).edges
                  ELSE Figure_from_points(verts).edges
    /\ segPoints = <<>>
    /\ cOp = "none" /\ cStart = PointFromInts(0, 0) /\ cEnd = PointFromInts(0, 0)
    /\ cRet = Err("none") /\ cBefore = <<>>
    /\ cPc = "ready"
    /\ ClipAlone

RectNext ==
    \/ CallPolygonContains
    \/ CallFigureContains

SpecRect == RectInit /\ [][RectNext]_vars

-----------------------------------------------------------------------------
(* The curve harness: a caller picks two linear functions, an interval and *)
(* a number of segments and calls new_parametric.                          *)

Slopes == (-MaxSlope) .. MaxSlope

CurveTimes == {FromInt(k) : k \in 0 .. MaxTime} \cup {Rat(1, 1000), Rat(1, 2)}

\* the arguments of the call: small ones, those of the test in curve.rs, and a few
\* with a segment count that is not positive
CurveCalls ==
    {[x_fn |-> Linear(mx, 0), y_fn |-> Linear(my, 0), start |-> a, end |-> b,
      num_segments |-> Some(n)] :
        mx \in Slopes, my \in Slopes, a \in CurveTimes, b \in CurveTimes,
        n \in 1 .. MaxSegments}
    \cup {[x_fn |-> Linear(1, 0), y_fn |-> Linear(1, 0),
           start |-> FromInt(100), end |-> FromInt(200), num_segments |-> None]}
    \cup {[x_fn |-> Linear(1, 0), y_fn |-> Linear(my, 0),
           start |-> FromInt(0), end |-> FromInt(1), num_segments |-> Some(n)] :
              my \in 0 .. 1, n \in {0, -1, -2}}

CurveInit ==
    /\ \E c \in CurveCalls :
          /\ qXfn = c.x_fn /\ qYfn = c.y_fn
          /\ qStart = c.start /\ qEnd = c.end
          /\ qSegments = c.num_segments
    /\ qPc = "call"
    /\ qOut = NoCurve
    /\ CurveAlone

\* OneColorCurve::new_parametric(color, x_fn, y_fn, start, end, num_segments)
CallNewParametric ==
    /\ qPc = "call"
    /\ qOut' = new_parametric(qXfn, qYfn, qStart, qEnd, qSegments)
    /\ qPc' = "done"
    /\ UNCHANGED <<qXfn, qYfn, qStart, qEnd, qSegments, notCurveVars>>

CurveNext == CallNewParametric

SpecCurve == CurveInit /\ [][CurveNext]_vars

-----------------------------------------------------------------------------
(* The implicit harness: a caller picks a curve (x, y) |-> (a*x + b*y + c) / den, *)
(* a width and a height and calls new_implicit.                            *)

\* the arguments of the call: small ones, and those of the test in curve.rs
ImplicitCalls ==
    {[curve |-> Implicit(a, b, c, den), width |-> w, height |-> h] :
        a \in (-MaxCoeff) .. MaxCoeff, b \in (-MaxCoeff) .. MaxCoeff,
        c \in (-MaxCoeff - 1) .. 0, den \in {1, 1000, 2000},
        w \in (-1) .. MaxSide, h \in (-1) .. MaxSide}
    \cup {[curve |-> Implicit(1, 0, 0, 1), width |-> 1000, height |-> 1000]}

ImplicitInit ==
    /\ \E c \in ImplicitCalls :
          iCurve = c.curve /\ iWidth = c.width /\ iHeight = c.height
    /\ iPc = "call"
    /\ iOut = <<>>
    /\ ImplicitAlone

\* OneColorCurve::new_implicit(curve, color, width, height)
CallNewImplicit ==
    /\ iPc = "call"
    /\ iOut' = new_implicit(iCurve, iWidth, iHeight)
    /\ iPc' = "done"
    /\ UNCHANGED <<iCurve, iWidth, iHeight, notImplicitVars>>

ImplicitNext == CallNewImplicit

SpecImplicit == ImplicitInit /\ [][ImplicitNext]_vars

-----------------------------------------------------------------------------
(* The build harness: a caller builds a polygon, a figure or a curve from  *)
(* a list of points or from a list of primitives.                          *)

\* the points the primitives of the small calls run between
PrimPoints == {PointFromInts(0, 0), PointFromInts(0, 2), PointFromInts(2, 0)}

\* the primitives of the small calls: segments, one of them of a single point
Prims == {OneColorSegment_new(p, q).points : p \in PrimPoints, q \in PrimPoints}

RECURSIVE Lists(_, _)
\* the lists of at most n elements of the set
Lists(set, n) ==
    IF n = 0 THEN {<<>>}
    ELSE Lists(set, n - 1) \cup {Append(l, x) : l \in {m \in Lists(set, n - 1) : Len(m) = n - 1}, x \in set}

\* the segments between consecutive points of the list
Chain(points) ==
    [i \in 1 .. (Len(points) - 1) |-> OneColorSegment_new(points[i], points[i + 1]).points]

\* the segment lists of tests/polygon.rs and tests/curve.rs
TestPrims ==
    {<<OneColorSegment_new(PointFromInts(100, 100), PointFromInts(200, 200)).points>>,
     <<OneColorSegment_new(PointFromInts(100, 100), PointFromInts(100, 200)).points>>,
     <<OneColorSegment_new(PointFromInts(100, 100), PointFromInts(100, 200)).points,
       OneColorSegment_new(PointFromInts(200, 100), PointFromInts(200, 200)).points,
       OneColorSegment_new(PointFromInts(300, 100), PointFromInts(300, 200)).points>>,
     Chain(BigSquare \o <<PointFromInts(100, 100)>>),
     Chain(<<PointFromInts(100, 100), PointFromInts(100, 200),
             PointFromInts(200, 200), PointFromInts(200, 300)>>)}

PrimLists == Lists(Prims, MaxPrims) \cup TestPrims

\* the points of the small calls of the constructors from points: whole ones, and
\* one between two pixels
FromPoints == PrimPoints \cup {Point(Rat(1, 2), FromInt(0))}

\* the point lists: small ones, and the square of the tests
PointLists == Lists(FromPoints, MaxPoints) \cup {BigSquare}

\* a point of whole coordinates as the i32 point of line.rs
Whole(p) == p.x.d = 1 /\ p.y.d = 1

AsIPoints(points) == [i \in 1 .. Len(points) |-> IPoint(points[i].x.n, points[i].y.n)]

\* the arcs a caller adds: between two points, with no tangents and sampled in one
\* segment, or with upward tangents and sampled in two
Arcs ==
    {HermiteArc(p, PointFromInts(0, 4 * (n - 1)), q, PointFromInts(0, 4 * (n - 1)), Some(n)) :
        p \in {PointFromInts(0, 0), PointFromInts(2, 0)},
        q \in {PointFromInts(0, 0), PointFromInts(2, 0)},
        n \in 1 .. 2}

ArcLists == Lists(Arcs, MaxArcs)

BuildInit ==
    /\ bOp = "none"
    /\ \/ bPoints = <<>> /\ bPrims \in PrimLists /\ bArcs = <<>>
       \/ bPoints \in PointLists /\ bPrims = <<>> /\ bArcs = <<>>
       \/ bPoints = <<>> /\ bPrims = <<>> /\ bArcs \in ArcLists
    /\ bPc = "call"
    /\ bOut = NotBuilt
    /\ BuildAlone

\* Polygon::new_from_lines(&lines)
CallPolygonNewFromLines ==
    /\ bPc = "call" /\ bPoints = <<>>
    /\ LET r == Polygon_new_from_lines(bPrims)
       IN  bOut' = [ret |-> r.ret, edges |-> r.edges, points |-> <<>>]
    /\ bOp' = "Polygon::new_from_lines"
    /\ bPc' = "done"
    /\ UNCHANGED <<bPoints, bPrims, bArcs, notBuildVars>>

\* Figure::from_primitives(&curves)
CallFigureFromPrimitives ==
    /\ bPc = "call" /\ bPoints = <<>>
    /\ LET r == Figure_from_primitives(bPrims)
       IN  bOut' = [ret |-> r.ret, edges |-> r.edges, points |-> <<>>]
    /\ bOp' = "Figure::from_primitives"
    /\ bPc' = "done"
    /\ UNCHANGED <<bPoints, bPrims, bArcs, notBuildVars>>

\* OneColorCurve::new_from_segments(&segments, color)
CallNewFromSegments ==
    /\ bPc = "call" /\ bPoints = <<>>
    /\ LET r == new_from_segments(bPrims)
       IN  bOut' = [ret |-> r.ret, edges |-> <<>>, points |-> r.points]
    /\ bOp' = "OneColorCurve::new_from_segments"
    /\ bPc' = "done"
    /\ UNCHANGED <<bPoints, bPrims, bArcs, notBuildVars>>

\* Polygon::new(&points, color), of polygon.rs
CallPolygonNew ==
    /\ bPc = "call" /\ bPrims = <<>>
    /\ \A i \in 1 .. Len(bPoints) : Whole(bPoints[i])
    /\ LET r == Polygon_OneColorLine_new(AsIPoints(bPoints))
       IN  bOut' = [ret |-> IF r.ok THEN "Ok" ELSE "NotEnoughPoints",
                    edges |-> [i \in 1 .. Len(r.edges) |-> Recorded(r.edges[i])],
                    points |-> <<>>]
    /\ bOp' = "Polygon::new"
    /\ bPc' = "done"
    /\ UNCHANGED <<bPoints, bPrims, bArcs, notBuildVars>>

\* Figure::from_points(&points, color)
CallFigureFromPoints ==
    /\ bPc = "call" /\ bPrims = <<>>
    /\ LET r == Figure_from_points(bPoints)
       IN  bOut' = [ret |-> IF r.ok THEN "Ok" ELSE "NotEnoughPoints",
                    edges |-> r.edges, points |-> <<>>]
    /\ bOp' = "Figure::from_points"
    /\ bPc' = "done"
    /\ UNCHANGED <<bPoints, bPrims, bArcs, notBuildVars>>

\* HermiteArcFigureBuilder::new().add_arc(..) ... .build()
CallBuild ==
    /\ bPc = "call" /\ bPoints = <<>> /\ bPrims = <<>>
    /\ \E r \in {HermiteArcFigureBuilder_build(bArcs)} :
           bOut' = [ret |-> IF r.finished THEN r.ret ELSE "running", edges |-> r.edges, points |-> <<>>]
    /\ bOp' = "HermiteArcFigureBuilder::build"
    /\ bPc' = "done"
    /\ UNCHANGED <<bPoints, bPrims, bArcs, notBuildVars>>

BuildNext ==
    \/ CallPolygonNewFromLines
    \/ CallFigureFromPrimitives
    \/ CallNewFromSegments
    \/ CallPolygonNew
    \/ CallFigureFromPoints
    \/ CallBuild

SpecBuild == BuildInit /\ [][BuildNext]_vars

-----------------------------------------------------------------------------
(* The render harness: a caller renders a primitive, or a figure or polygon*)
(* of touching edges, on a renderer of which some draw_points call may fail.*)

PrimColors == {"RED", "GREEN"}

RendererColors == {"BLACK", "RED"}

\* a primitive: a segment, a curve or a line of some color; its point list is empty
\* (as new_45_deg and new_parametric can leave it) or that of a small segment
Primitives ==
    {[kind |-> k, color |-> c, points |-> pts] :
        k \in {"segment", "curve", "line"}, c \in PrimColors, pts \in Prims \cup {<<>>}}

PointsOf(edges) == [i \in 1 .. Len(edges) |-> edges[i].points]

\* the primitives of one kind and of the given colors along a closed walk
WalkEdges(walk, kind, colors) ==
    [i \in 1 .. Len(walk) |->
        [kind |-> kind, color |-> colors[i],
         points |-> OneColorSegment_new(walk[i], walk[(i % Len(walk)) + 1]).points]]

\* the lists of primitives of one kind that from_primitives accepts as a figure:
\* the primitives being the segments between PrimPoints, they are the closed walks
EdgeLists ==
    {l \in UNION {{WalkEdges(walk, kind, colors) :
                       kind \in {"segment", "curve", "line"},
                       colors \in [1 .. Len(walk) -> PrimColors]} :
                   walk \in Lists(PrimPoints, MaxPrims) \ {<<>>}} :
        Figure_from_primitives(PointsOf(l)).ret = "Ok"}

RenderInputs == {<<prim>> : prim \in Primitives} \cup EdgeLists

RenderInit ==
    /\ nOp = "none"
    /\ nPrims \in RenderInputs
    /\ \E c \in RendererColors, b \in 0 .. MaxPrims : nRen = Renderer(c, b)
    /\ nBefore = nRen
    /\ nRet = "none"
    /\ nPc = "call"
    /\ RenderAlone

\* segment.render(&mut renderer)
CallSegmentRender ==
    /\ nPc = "call" /\ Len(nPrims) = 1 /\ nPrims[1].kind = "segment"
    /\ LET r == OneColorSegment_render(nPrims[1], nRen)
       IN  nRet' = r.ret /\ nRen' = r.ren
    /\ nOp' = "OneColorSegment::render"
    /\ nPc' = "done"
    /\ UNCHANGED <<nPrims, nBefore, notRenderVars>>

\* curve.render(&mut renderer)
CallCurveRender ==
    /\ nPc = "call" /\ Len(nPrims) = 1 /\ nPrims[1].kind = "curve"
    /\ LET r == OneColorCurve_render(nPrims[1], nRen)
       IN  nRet' = r.ret /\ nRen' = r.ren
    /\ nOp' = "OneColorCurve::render"
    /\ nPc' = "done"
    /\ UNCHANGED <<nPrims, nBefore, notRenderVars>>

\* line.render(&mut renderer)
CallLineRender ==
    /\ nPc = "call" /\ Len(nPrims) = 1 /\ nPrims[1].kind = "line"
    /\ LET r == OneColorLine_render(nPrims[1], nRen)
       IN  nRet' = r.ret /\ nRen' = r.ren
    /\ nOp' = "OneColorLine::render"
    /\ nPc' = "done"
    /\ UNCHANGED <<nPrims, nBefore, notRenderVars>>

\* figure.render(&mut renderer), of a figure of segments or of curves
CallFigureRender ==
    /\ nPc = "call" /\ nPrims \in EdgeLists /\ nPrims[1].kind # "line"
    /\ LET r == Figure_render(nPrims, nRen)
       IN  nRet' = r.ret /\ nRen' = r.ren
    /\ nOp' = "Figure::render"
    /\ nPc' = "done"
    /\ UNCHANGED <<nPrims, nBefore, notRenderVars>>

\* polygon.render(&mut renderer), of a polygon of lines or of segments
CallPolygonRender ==
    /\ nPc = "call" /\ nPrims \in EdgeLists /\ nPrims[1].kind # "curve"
    /\ Polygon_new_from_lines(PointsOf(nPrims)).ret = "Ok"
    /\ LET r == Polygon_render(nPrims, nRen)
       IN  nRet' = r.ret /\ nRen' = r.ren
    /\ nOp' = "Polygon::render"
    /\ nPc' = "done"
    /\ UNCHANGED <<nPrims, nBefore, notRenderVars>>

RenderNext ==
    \/ CallSegmentRender
    \/ CallCurveRender
    \/ CallLineRender
    \/ CallFigureRender
    \/ CallPolygonRender

SpecRender == RenderInit /\ [][RenderNext]_vars

-----------------------------------------------------------------------------
(* The algebra harness: a caller computes the general form of a line from  *)
(* two points or from a segment, intersects two lines, or evaluates the    *)
(* Hermite basis and the position function of an arc.                      *)

AlgRange == (-MaxAlg) .. MaxAlg

\* points of coordinates k/2
HalfPoints == {Point(Rat(i, 2), Rat(j, 2)) : i \in AlgRange, j \in AlgRange}

\* the ends of the segments that are converted: grid points, and the ends of the
\* segment of the test new_segment_has_correct_general_form
SegmentEnds ==
    {<<PointFromInts(i, j), PointFromInts(k, l)>> :
        i \in AlgRange, j \in AlgRange, k \in AlgRange, l \in AlgRange}
    \cup {<<PointFromInts(100, 100), PointFromInts(100, 200)>>}

\* lines of whole coefficients
Coefficients == {LineGeneralForm_new(a, b, c) : a \in AlgRange, b \in AlgRange, c \in {-1, 0, 2}}

\* the f64 line of those coefficients
AsLine(l) == Line_new(FromInt(l.a), FromInt(l.b), FromInt(l.c))

\* the values of t: quarters, inside and outside [0, 1]
BasisTimes == {Rat(k, 4) : k \in (-MaxAlg) .. (4 + MaxAlg)}

\* one coordinate of the start, the end and the tangents of an arc
ArcCoordinates == {FromInt(v) : v \in -1 .. 1}

AlgebraInit ==
    /\ aOp = "none" /\ aPoints = <<>> /\ aLines = <<>> /\ aNums = <<>> /\ aSeg = <<>>
    /\ aOut = NoResult /\ aPc = "call"
    /\ AlgebraAlone

\* Line::new_from_points(start, end)
CallLineNewFromPoints ==
    /\ aPc = "call"
    /\ \E p1 \in HalfPoints, p2 \in HalfPoints :
          /\ aPoints' = <<p1, p2>>
          /\ aOut' = [NoResult EXCEPT !.line = Line_new_from_points(p1, p2)]
    /\ aOp' = "Line::new_from_points"
    /\ aPc' = "done"
    /\ UNCHANGED <<aLines, aNums, aSeg, notAlgebraVars>>

\* OneColorSegment::new(start, end, color).into(), a Line
CallLineFrom ==
    /\ aPc = "call"
    /\ \E ends \in SegmentEnds :
          \E segment \in {OneColorSegment_new(ends[1], ends[2]).points} :
              /\ aPoints' = ends
              /\ aSeg' = segment
              /\ aOut' = [NoResult EXCEPT !.line = Line_from(segment)]
    /\ aOp' = "Line::from"
    /\ aPc' = "done"
    /\ UNCHANGED <<aLines, aNums, notAlgebraVars>>

\* self.intersection(&other), of two f64 lines
CallLineIntersection ==
    /\ aPc = "call"
    /\ \E l1 \in Coefficients, l2 \in Coefficients :
          /\ aLines' = <<l1, l2>>
          /\ aOut' = [NoResult EXCEPT !.point = Line_intersection(AsLine(l1), AsLine(l2))]
    /\ aOp' = "Line::intersection"
    /\ aPc' = "done"
    /\ UNCHANGED <<aPoints, aNums, aSeg, notAlgebraVars>>

\* self.intersection(&other), of two i32 lines
CallLineGeneralFormIntersection ==
    /\ aPc = "call"
    /\ \E l1 \in Coefficients, l2 \in Coefficients :
          \E r \in {LineGeneralForm_intersection(l1, l2)} :
              /\ aLines' = <<l1, l2>>
              /\ aOut' = [NoResult EXCEPT !.point = PointFromInts(r.x, r.y), !.panic = r.panic]
    /\ aOp' = "LineGeneralForm::intersection"
    /\ aPc' = "done"
    /\ UNCHANGED <<aPoints, aNums, aSeg, notAlgebraVars>>

\* HermiteArc::basis_h0(t), basis_h1(t), basis_h2(t), basis_h3(t)
CallBasis ==
    /\ aPc = "call"
    /\ \E t \in BasisTimes :
          /\ aNums' = <<t>>
          /\ aOut' = [NoResult EXCEPT !.vals = <<basis_h0(t), basis_h1(t), basis_h2(t), basis_h3(t)>>]
    /\ aOp' = "HermiteArc::basis"
    /\ aPc' = "done"
    /\ UNCHANGED <<aPoints, aLines, aSeg, notAlgebraVars>>

\* the closure try_from gives as x_fn (or y_fn), called with t
CallPosition ==
    /\ aPc = "call"
    /\ \E start \in ArcCoordinates, start_tangent \in ArcCoordinates,
          end \in ArcCoordinates, end_tangent \in ArcCoordinates, t \in BasisTimes :
          /\ aNums' = <<start, start_tangent, end, end_tangent, t>>
          /\ aOut' = [NoResult EXCEPT !.vals = <<HermiteAt(start, start_tangent, end, end_tangent, t)>>]
    /\ aOp' = "position"
    /\ aPc' = "done"
    /\ UNCHANGED <<aPoints, aLines, aSeg, notAlgebraVars>>

AlgebraNext ==
    \/ CallLineNewFromPoints
    \/ CallLineFrom
    \/ CallLineIntersection
    \/ CallLineGeneralFormIntersection
    \/ CallBasis
    \/ CallPosition

SpecAlgebra == AlgebraInit /\ [][AlgebraNext]_vars

-----------------------------------------------------------------------------
(* Claims about the rasterizers.                                           *)

ArgPoint(p) == PointFromInts(p.x, p.y)

\* a returned point lies on the integer grid
OnGrid(p) == p.x.d = 1 /\ p.y.d = 1

RasterizedByNew == rPc = "done" /\ rKind \in {"OneColorLine::new", "OneColorSegment::new"}

\* C1: whatever the octant and direction of (start, end), OneColorSegment::new and
\* OneColorLine::new return (the loop ends) a point list whose first point is
\* start and whose last point is end.
C1_EndpointFidelity ==
    RasterizedByNew =>
        /\ rOut.finished
        /\ Len(rOut.points) >= 1
        /\ first_point(rOut.points) = ArgPoint(rStart)
        /\ last_point(rOut.points) = ArgPoint(rEnd)

\* a steep segment running towards smaller x and larger y was rasterized by the
\* f64 rasterizer
C1_Witness ==
    /\ rPc = "done" /\ rKind = "OneColorSegment::new"
    /\ rStart = IPoint(1, -2) /\ rEnd = IPoint(0, 2)
    /\ Len(rOut.points) = 5

\* C2: consecutive points of a rasterized segment differ by at most one unit in
\* x and at most one unit in y.
C2_NoGaps ==
    RasterizedByNew =>
        \A i \in 1 .. (Len(rOut.points) - 1) :
            LET p == rOut.points[i]
                q == rOut.points[i + 1]
            IN  /\ OnGrid(p) /\ OnGrid(q)
                /\ IAbs(q.x.n - p.x.n) <= 1
                /\ IAbs(q.y.n - p.y.n) <= 1

\* a shallow segment with both a straight and a diagonal step was rasterized by
\* the integer rasterizer
C2_Witness ==
    /\ rPc = "done" /\ rKind = "OneColorLine::new"
    /\ rStart = IPoint(2, 1) /\ rEnd = IPoint(-2, -1)
    /\ Len(rOut.points) = 5
    /\ \E i \in 1 .. 4 : rOut.points[i + 1].y = rOut.points[i].y
    /\ \E i \in 1 .. 4 : rOut.points[i + 1].y # rOut.points[i].y

\* C3: every segment constructor, new_45_deg included, returns when it succeeds a
\* non-empty point list whose first point is start and whose last point is end.
C3_EveryConstructorKeepsEndpoints ==
    (rPc = "done" /\ rOut.ok) =>
        /\ Len(rOut.points) >= 1
        /\ first_point(rOut.points) = ArgPoint(rStart)
        /\ last_point(rOut.points) = ArgPoint(rEnd)

-----------------------------------------------------------------------------
(* Claims about containment and clipping.                                  *)

\* the whole coordinates of a grid point
GX(p) == p.x.n

GY(p) == p.y.n

\* the even-odd rule in whole numbers: the edges from verts[i] to its cyclic
\* successor whose ends straddle p.y and that cross the horizontal through p
\* strictly to the right of p.x
EdgesCrossedToTheRight(verts, p) ==
    {i \in 1 .. Len(verts) :
        LET a == verts[i]
            b == verts[(i % Len(verts)) + 1]
        IN  /\ (GY(a) > GY(p)) # (GY(b) > GY(p))
            /\ IF GY(b) > GY(a)
               THEN (GX(p) - GX(a)) * (GY(b) - GY(a)) < (GY(p) - GY(a)) * (GX(b) - GX(a))
               ELSE (GX(p) - GX(a)) * (GY(b) - GY(a)) > (GY(p) - GY(a)) * (GX(b) - GX(a))}

Contained == cPc = "done" /\ cOp \in {"Polygon::contains", "Figure::contains"}

\* C4: contains, of Polygon and of Figure alike, answers true exactly when the
\* number of edges (the closing edge included) that straddle point.y and cross
\* strictly right of point.x is odd; the square (0,0),(0,5),(5,5),(5,0) contains
\* (3,3), (2,2), (0,2) and (0,0) and does not contain (6,3) and (3,6).
C4_EvenOddRule ==
    Contained =>
        /\ cRet.tag \in {"true", "false"}
        /\ (cRet.tag = "true") <=>
              (Cardinality(EdgesCrossedToTheRight(vertices(shapeEdges), cStart)) % 2 = 1)
        /\ vertices(shapeEdges) = Square05 =>
              /\ cStart \in {PointFromInts(3, 3), PointFromInts(2, 2),
                             PointFromInts(0, 2), PointFromInts(0, 0)} => cRet.tag = "true"
              /\ cStart \in {PointFromInts(6, 3), PointFromInts(3, 6)} => cRet.tag = "false"

\* the square was asked about its own corner (0,0), which it contains
C4_Witness ==
    /\ Contained /\ cOp = "Polygon::contains"
    /\ vertices(shapeEdges) = Square05
    /\ cStart = PointFromInts(0, 0)
    /\ cRet.tag = "true"

Clipped == cPc = "done" /\ cOp \in {"new_inside_polygon", "cut_inside_polygon"}

\* C5: when the polygon contains both start and end, the clip returns exactly
\* (start, end).
C5_BothInsideUnchanged ==
    (Clipped /\ Polygon_contains(shapeEdges, cStart) /\ Polygon_contains(shapeEdges, cEnd)) =>
        cRet = Ok(cStart, cEnd)

\* a segment along the left side of the small square, which contains both its
\* ends, was clipped
C5_Witness ==
    /\ Clipped /\ cOp = "new_inside_polygon"
    /\ vertices(shapeEdges) = SmallSquare
    /\ cStart = PointFromInts(2, 2) /\ cEnd = PointFromInts(2, 3)
    /\ cRet = Ok(cStart, cEnd)

NewInsidePolygon == cPc = "done" /\ cOp = "new_inside_polygon"

\* C6: against the square (100,100),(100,200),(200,200),(200,100),
\* new_inside_polygon of (50,150)-(250,150) gives a segment from (100,150) to
\* (200,150), and of (150,50)-(150,250) a segment from (150,200) to (150,100).
C6_BigSquareClips ==
    (NewInsidePolygon /\ vertices(shapeEdges) = BigSquare) =>
        /\ (cStart = PointFromInts(50, 150) /\ cEnd = PointFromInts(250, 150)) =>
              /\ cRet.tag = "Ok"
              /\ first_point(segPoints) = PointFromInts(100, 150)
              /\ last_point(segPoints) = PointFromInts(200, 150)
        /\ (cStart = PointFromInts(150, 50) /\ cEnd = PointFromInts(150, 250)) =>
              /\ cRet.tag = "Ok"
              /\ first_point(segPoints) = PointFromInts(150, 200)
              /\ last_point(segPoints) = PointFromInts(150, 100)

\* the vertical segment was clipped to the big square: 101 points from the top
\* side down to the bottom side
C6_Witness ==
    /\ NewInsidePolygon /\ vertices(shapeEdges) = BigSquare
    /\ cStart = PointFromInts(150, 50) /\ cEnd = PointFromInts(150, 250)
    /\ cRet = Ok(PointFromInts(150, 200), PointFromInts(150, 100))
    /\ Len(segPoints) = 101

\* f64 <= on finite values
RLe(a, b) == IsFinite(a) /\ IsFinite(b) /\ ~RLt(b, a)

\* the point of the segment from s to e at parameter t
Along(s, e, t) ==
    Point(RMulAdd(t, RSub(e.x, s.x), s.x), RMulAdd(t, RSub(e.y, s.y), s.y))

\* the parameters in [0, 1] at which the segment from s to e meets the line of
\* an edge of the shape, together with 0 and 1
Meetings(s, e, shEdges) ==
    LET at(i) ==
            LET l == Line_new_from_points(first_point(shEdges[i]), last_point(shEdges[i]))
                f0 == RAdd(RMulAdd(l.a, s.x, RMul(l.b, s.y)), l.c)
                df == RMulAdd(l.a, RSub(e.x, s.x), RMul(l.b, RSub(e.y, s.y)))
            IN  RDiv(RNeg(f0), df)
    IN  {FromInt(0), FromInt(1)} \cup
        {t \in {at(i) : i \in 1 .. Len(shEdges)} : RLe(FromInt(0), t) /\ RLe(t, FromInt(1))}

\* no point of the segment from s to e is inside the shape: containment can only
\* change where the segment meets the line of an edge, so the meetings and a
\* point between every two of them decide it
EntirelyOutside(s, e, shEdges) ==
    \A t1 \in Meetings(s, e, shEdges) : \A t2 \in Meetings(s, e, shEdges) :
        ~Polygon_contains(shEdges, Along(s, e, RDiv(RAdd(t1, t2), FromInt(2))))

\* C7: the clip returns Outside exactly when no point of the segment from start
\* to end is inside the polygon; (500,500)-(500,600) against the square
\* (100,100),(100,200),(200,200),(200,100) returns Outside.
C7_OutsideExactly ==
    NewInsidePolygon =>
        /\ (cRet.tag = "Outside") <=> EntirelyOutside(cStart, cEnd, shapeEdges)
        /\ (/\ vertices(shapeEdges) = BigSquare
            /\ cStart = PointFromInts(500, 500)
            /\ cEnd = PointFromInts(500, 600)) => cRet.tag = "Outside"

\* p lies on the segment from s to e, ends included
OnSegment(p, s, e) ==
    /\ IsFinite(p.x) /\ IsFinite(p.y)
    /\ RMul(RSub(p.x, s.x), RSub(e.y, s.y)) = RMul(RSub(p.y, s.y), RSub(e.x, s.x))
    /\ (RLe(s.x, p.x) /\ RLe(p.x, e.x)) \/ (RLe(e.x, p.x) /\ RLe(p.x, s.x))
    /\ (RLe(s.y, p.y) /\ RLe(p.y, e.y)) \/ (RLe(e.y, p.y) /\ RLe(p.y, s.y))

\* every turn of the closed vertex list is to the same side
Convex(verts) ==
    LET turn(i) ==
            LET a == verts[i]
                b == verts[(i % Len(verts)) + 1]
                c == verts[((i + 1) % Len(verts)) + 1]
            IN  (GX(b) - GX(a)) * (GY(c) - GY(b)) - (GY(b) - GY(a)) * (GX(c) - GX(b))
    IN  \/ \A i \in 1 .. Len(verts) : turn(i) > 0
        \/ \A i \in 1 .. Len(verts) : turn(i) < 0

\* C8: for a convex polygon, whenever the clip succeeds both resolved endpoints
\* lie on the original segment between start and end, ends included.
C8_ResolvedOnSegment ==
    (Clipped /\ Convex(vertices(shapeEdges)) /\ cRet.tag = "Ok") =>
        /\ OnSegment(cRet.start, cStart, cEnd)
        /\ OnSegment(cRet.end, cStart, cEnd)

CutDone == cPc = "done" /\ cOp = "cut_inside_polygon"

\* run is a contiguous run of whole, in the order of whole
ContiguousRun(run, whole) ==
    \E i \in 1 .. Len(whole) :
        i + Len(run) - 1 <= Len(whole) /\ run = SubSeq(whole, i, i + Len(run) - 1)

\* C9: after cut_inside_polygon succeeds the stored points are a contiguous run
\* of the original point list, in the original order, whose first and last points
\* are the two resolved clip endpoints (in either order); the segment rasterized
\* from (150,50) to (150,250), cut to the square
\* (100,100),(100,200),(200,200),(200,100), runs from (150,100) to (150,200).
C9_CutKeepsRunBetweenEndpoints ==
    (CutDone /\ cRet.tag = "Ok") =>
        /\ Len(segPoints) >= 1
        /\ ContiguousRun(segPoints, cBefore)
        /\ \/ PointEq(first_point(segPoints), cRet.start) /\ PointEq(last_point(segPoints), cRet.end)
           \/ PointEq(first_point(segPoints), cRet.end) /\ PointEq(last_point(segPoints), cRet.start)
        /\ (/\ vertices(shapeEdges) = BigSquare
            /\ cStart = PointFromInts(150, 50)
            /\ cEnd = PointFromInts(150, 250)) =>
              /\ first_point(segPoints) = PointFromInts(150, 100)
              /\ last_point(segPoints) = PointFromInts(150, 200)

-----------------------------------------------------------------------------
(* Claims about curves.                                                    *)

\* a is within the margin of b
Within(a, b, margin) == RLe(RAbs(RSub(a, b)), margin)

Sampled == qPc = "done" /\ qOut.ok

\* C10: new_parametric with end > start and a positive segment count returns a
\* curve whose first point is (x(start), y(start)) and whose last point is within
\* ERROR_MARGIN of (x(end), y(end)) on each axis; the identity over [100, 200)
\* with the default 500 segments starts about (100,100) and ends about (200,200).
C10_CurveEndpoints ==
    (Sampled /\ RGt(qEnd, qStart) /\ unwrap_or(qSegments, DEFAULT_NUM_SEGMENTS) > 0) =>
        /\ qOut.finished
        /\ Len(qOut.points) >= 1
        /\ first_point(qOut.points) = Point(Apply(qXfn, qStart), Apply(qYfn, qStart))
        /\ Within(last_point(qOut.points).x, Apply(qXfn, qEnd), ERROR_MARGIN)
        /\ Within(last_point(qOut.points).y, Apply(qYfn, qEnd), ERROR_MARGIN)
        /\ (~qSegments.some /\ qStart = FromInt(100) /\ qEnd = FromInt(200)) =>
              /\ Within(first_point(qOut.points).x, FromInt(100), ERROR_MARGIN)
              /\ Within(first_point(qOut.points).y, FromInt(100), ERROR_MARGIN)
              /\ Within(last_point(qOut.points).x, FromInt(200), ERROR_MARGIN)
              /\ Within(last_point(qOut.points).y, FromInt(200), ERROR_MARGIN)

\* the implicit harness called new_implicit and holds its points
ImplicitDone == iPc = "done"

\* the value of the curve at the grid point p is within the margin
OnImplicitCurve(p) == RLt(RAbs(Apply2(iCurve, p.x, p.y)), SMALL_ERROR_MARGIN)

\* the grid points of 0..width-1 by 0..height-1 (for the small calls only)
Cells == {PointFromInts(i, j) : i \in 0 .. (iWidth - 1), j \in 0 .. (iHeight - 1)}

\* p comes before q in ascending order of x, then of y
Before(p, q) == RLt(p.x, q.x) \/ (p.x = q.x /\ RLt(p.y, q.y))

\* C11: new_implicit(f, color, width, height) returns exactly the grid points
\* (i, j) with 0 <= i < width, 0 <= j < height and |f(i, j)| < SMALL_ERROR_MARGIN,
\* each once, in ascending order of i and then j; for f(x, y) = x on 1000 by 1000
\* the first point is (0, 0) and the last is (0, 999)
C11_ImplicitGridPoints ==
    ImplicitDone =>
        /\ \A k \in 1 .. Len(iOut) :
              /\ OnImplicitCurve(iOut[k])
              /\ \E i \in 0 .. (iWidth - 1) : iOut[k].x = FromInt(i)
              /\ \E j \in 0 .. (iHeight - 1) : iOut[k].y = FromInt(j)
              /\ k < Len(iOut) => Before(iOut[k], iOut[k + 1])
        /\ iWidth <= MaxSide =>
              \A p \in Cells : OnImplicitCurve(p) => \E k \in 1 .. Len(iOut) : iOut[k] = p
        /\ (iCurve = Implicit(1, 0, 0, 1) /\ iWidth = 1000 /\ iHeight = 1000) =>
              /\ Len(iOut) = 1000
              /\ first_point(iOut) = PointFromInts(0, 0)
              /\ last_point(iOut) = PointFromInts(0, 999)

\* new_implicit returned points of two columns, and of two rows of one column
C11_Witness ==
    /\ ImplicitDone
    /\ \E k \in 1 .. Len(iOut), l \in 1 .. Len(iOut) : iOut[k].x # iOut[l].x
    /\ \E k \in 1 .. Len(iOut), l \in 1 .. Len(iOut) : iOut[k].x = iOut[l].x /\ iOut[k].y # iOut[l].y


-----------------------------------------------------------------------------
(* Claims about the constructors of shapes and curves.                     *)

\* the build harness called the constructor
Built(op) == bPc = "done" /\ bOp = op

\* some primitive of the list does not end where the next one starts, the
\* first one being next to the last
OpenChain(prims) ==
    \E i \in 1 .. Len(prims) : last_point(CyclicPairs(prims)[i][1]) # first_point(CyclicPairs(prims)[i][2])

NotTouchingError == {"LinesDontTouch", "NotTouching"}

BrokenChain(prims) ==
    \E i \in 1 .. (Len(prims) - 1) : last_point(prims[i]) # first_point(prims[i + 1])

RECURSIVE PointsBefore(_, _)
\* the number of points of the primitives before the i-th one
PointsBefore(prims, i) == IF i = 1 THEN 0 ELSE PointsBefore(prims, i - 1) + Len(prims[i - 1])

\* C16: OneColorCurve::new_from_segments returns NotEnough for fewer than 2
\* primitives, NotTouching when some consecutive pair does not touch (the pair
\* (last, first) need not), and otherwise a curve whose points are the points of the
\* primitives one after the other: it starts at the first point of the first
\* primitive and ends at the last point of the last one
C16_CurveFromSegments ==
    Built("OneColorCurve::new_from_segments") =>
        /\ Len(bPrims) < 2 => bOut.ret = "NotEnough"
        /\ (Len(bPrims) >= 2 /\ BrokenChain(bPrims)) => bOut.ret = "NotTouching"
        /\ (Len(bPrims) >= 2 /\ ~BrokenChain(bPrims)) =>
              /\ bOut.ret = "Ok"
              /\ Len(bOut.points) = PointsBefore(bPrims, Len(bPrims) + 1)
              /\ \A i \in 1 .. Len(bPrims) : \A j \in 1 .. Len(bPrims[i]) :
                    bOut.points[PointsBefore(bPrims, i) + j] = bPrims[i][j]
              /\ first_point(bOut.points) = first_point(bPrims[1])
              /\ last_point(bOut.points) = last_point(bPrims[Len(bPrims)])

\* a curve was built from a chain that touches but does not close
C16_Witness ==
    /\ Built("OneColorCurve::new_from_segments")
    /\ bOut.ret = "Ok"
    /\ Len(bPrims) >= 3
    /\ last_point(bPrims[Len(bPrims)]) # first_point(bPrims[1])
    /\ Len(bOut.points) > Len(bPrims)

\* C17: every constructor of a closed shape rejects too-small input: Polygon::new
\* and Figure::from_points fail with NotEnoughPoints for fewer than 3 points, and
\* Polygon::new_from_lines fails with NotEnoughLines for fewer than 3 primitives,
\* whether or not they touch
C17_TooSmallRejected ==
    /\ (Built("Polygon::new") \/ Built("Figure::from_points")) =>
          (Len(bPoints) < 3 => bOut.ret = "NotEnoughPoints")
    /\ Built("Polygon::new_from_lines") =>
          (Len(bPrims) < 3 => bOut.ret = "NotEnoughLines")

\* the i-th point of the list, the first one coming after the last
Cyclic(points, i) == points[(i % Len(points)) + 1]

\* C18: a Polygon or Figure built from n accepted points has exactly n edges, edge i
\* being the rasterized segment from p(i) to p(i+1) and the last edge the one from
\* p(n-1) back to p0; hence vertices()/points() returns the input points in input
\* order and consecutive edges touch cyclically
C18_EdgesOfPoints ==
    ((Built("Polygon::new") \/ Built("Figure::from_points")) /\ bOut.ret = "Ok") =>
        /\ Len(bOut.edges) = Len(bPoints)
        /\ \A i \in 1 .. Len(bPoints) :
              bOut.edges[i] = OneColorSegment_new(bPoints[i], Cyclic(bPoints, i)).points
        /\ vertices(bOut.edges) = bPoints
        /\ \A i \in 1 .. Len(bPoints) :
              last_point(bOut.edges[i]) = first_point(Cyclic(bOut.edges, i))

-----------------------------------------------------------------------------
(* Claims about render.                                                    *)

RenderedPrimitive ==
    nPc = "done" /\ nOp \in {"OneColorSegment::render", "OneColorCurve::render", "OneColorLine::render"}

RenderedShape == nPc = "done" /\ nOp \in {"Figure::render", "Polygon::render"}

IsSetColor(entry, color) == entry.call = "set_color" /\ entry.color = color

\* C13: after render of a segment, line or curve returns Ok, the color of the renderer
\* is the one it had before the call, and in between the color of the primitive was
\* set before its points were drawn; the same holds after render of a Figure or a
\* Polygon returns Ok, for each of its edges
C13_ColorRestored ==
    ((RenderedPrimitive \/ RenderedShape) /\ nRet = "Ok") =>
        /\ current_color(nRen) = current_color(nBefore)
        /\ Len(nRen.log) = 3 * Len(nPrims)
        /\ \A i \in 1 .. Len(nPrims) :
              /\ IsSetColor(nRen.log[3 * i - 2], nPrims[i].color)
              /\ nRen.log[3 * i - 1].call = "draw_points"
              /\ nRen.log[3 * i - 1].points = nPrims[i].points
              /\ nRen.log[3 * i - 1].color = nPrims[i].color
              /\ IsSetColor(nRen.log[3 * i], current_color(nBefore))

\* a primitive was rendered in a color that is not the one of the renderer, and so
\* was a shape of three edges
C13_Witness ==
    /\ nRet = "Ok"
    /\ nPrims[1].color # current_color(nBefore)
    /\ \/ RenderedPrimitive /\ nPrims[1].kind = "segment"
       \/ RenderedShape /\ Len(nPrims) = 3

\* C14: render of a primitive whose point list is empty returns the Empty error and
\* makes no set_color, draw_point or draw_points call on the renderer
C14_EmptyIsError ==
    (RenderedPrimitive /\ nPrims[1].points = <<>>) =>
        /\ nRet = "Empty"
        /\ nRen = nBefore

\* an empty segment of a color that is not the one of the renderer was rendered
C14_Witness ==
    /\ RenderedPrimitive
    /\ nPrims[1].kind = "segment"
    /\ nPrims[1].points = <<>>
    /\ nPrims[1].color # current_color(nBefore)

IsDraw(entry) == entry.call = "draw_points"

\* the draw_points calls the renderer received, in order
Draws == SelectSeq(nRen.log, IsDraw)

\* C15: Figure::render and Polygon::render render the edges in stored order; at the
\* first edge whose render fails they return the error of that edge and render none
\* of the later edges; they return Ok only if every edge rendered
C15_FirstErrorStops ==
    RenderedShape =>
        /\ Len(Draws) <= Len(nPrims)
        /\ \A i \in 1 .. Len(Draws) :
              /\ Draws[i].points = nPrims[i].points
              /\ i < Len(Draws) => Draws[i].ok
        /\ nRet = "Ok" <=> (Len(Draws) = Len(nPrims) /\ \A i \in 1 .. Len(Draws) : Draws[i].ok)
        /\ nRet # "Ok" => (nRet = "Draw" /\ ~Draws[Len(Draws)].ok)

\* the second of three edges failed to draw
C15_Witness ==
    /\ RenderedShape
    /\ Len(nPrims) = 3
    /\ nRet = "Draw"
    /\ Len(Draws) = 2

\* C23: whatever render returns (Ok, the Draw error of a draw call that failed, or
\* the Empty error of a primitive without points), the current color of the
\* renderer after the call is its color before the call
C23_ColorUnchangedAlways ==
    (RenderedPrimitive \/ RenderedShape) => current_color(nRen) = current_color(nBefore)

-----------------------------------------------------------------------------
(* Claims about the sampling loop.                                         *)

\* C19: new_parametric terminates for every interval with end > start and every
\* segment count the caller can pass (None, positive, zero or negative), after a
\* number of sampling steps bounded by the segment count
C19_SamplingTerminates ==
    (Sampled /\ qOut.ok) =>
        /\ qOut.finished
        /\ qOut.steps <= IAbs(unwrap_or(qSegments, DEFAULT_NUM_SEGMENTS))

-----------------------------------------------------------------------------
(* Claims about the figure builder.                                        *)

\* the edges touch: each one ends where the next one starts, the first one being
\* next to the last
ClosedChain(edges) ==
    \A i \in 1 .. Len(edges) : last_point(edges[i]) = first_point(Cyclic(edges, i))

\* C20: HermiteArcFigureBuilder::build returns a Figure only when the curves sampled
\* from the given arcs and from the closing arc it adds form a touching chain,
\* cyclically; for a list of arcs of which one ends where the next does not start
\* it returns no Figure
C20_BuildValidatesChain ==
    (Built("HermiteArcFigureBuilder::build") /\ bOut.ret = "Ok") =>
        /\ ClosedChain(bOut.edges)
        /\ \A i \in 1 .. (Len(bArcs) - 1) : bArcs[i].end = bArcs[i + 1].start

-----------------------------------------------------------------------------
(* Claims about the general form of a line.                                *)

LineMade(op) == aPc = "done" /\ aOp = op

\* the whole number i of a coordinate i/2
Twice(a) == (a.n * 2) \div a.d

\* C21: Line::new_from_points(p1, p2) has a = p2.y - p1.y, b = p1.x - p2.x and
\* c = p2.x*p1.y - p1.x*p2.y, so p1 and p2 both satisfy a*x + b*y + c = 0; the
\* Line made from a rasterized segment has the coefficients of
\* new_from_points(first_point, last_point)
C21_GeneralForm ==
    /\ LineMade("Line::new_from_points") =>
          /\ aOut.line.a = Rat(Twice(aPoints[2].y) - Twice(aPoints[1].y), 2)
          /\ aOut.line.b = Rat(Twice(aPoints[1].x) - Twice(aPoints[2].x), 2)
          /\ aOut.line.c = Rat(Twice(aPoints[2].x) * Twice(aPoints[1].y)
                               - Twice(aPoints[1].x) * Twice(aPoints[2].y), 4)
          /\ Line_at(aOut.line, aPoints[1]) = FromInt(0)
          /\ Line_at(aOut.line, aPoints[2]) = FromInt(0)
    /\ LineMade("Line::from") =>
          /\ aOut.line = Line_new_from_points(first_point(aSeg), last_point(aSeg))
          /\ Line_at(aOut.line, aPoints[1]) = FromInt(0)
          /\ Line_at(aOut.line, aPoints[2]) = FromInt(0)

\* a line through two different points that is not horizontal, not vertical and
\* not through the origin
C21_Witness ==
    /\ LineMade("Line::new_from_points")
    /\ aPoints[1] # aPoints[2]
    /\ aOut.line.a # FromInt(0) /\ aOut.line.b # FromInt(0) /\ aOut.line.c # FromInt(0)

Intersected == aPc = "done" /\ aOp \in {"Line::intersection", "LineGeneralForm::intersection"}

\* a1*b2 - a2*b1 of the two line arguments
Determinant == aLines[1].a * aLines[2].b - aLines[2].a * aLines[1].b

\* what the function called returns for the arguments exchanged
Exchanged ==
    IF aOp = "Line::intersection" THEN Line_intersection(AsLine(aLines[2]), AsLine(aLines[1]))
    ELSE PointFromInts(LineGeneralForm_intersection(aLines[2], aLines[1]).x,
                       LineGeneralForm_intersection(aLines[2], aLines[1]).y)

\* C22: for two lines that are not parallel (a1*b2 - a2*b1 # 0), intersection
\* returns the point that satisfies the equations of both lines, and the same
\* point when the two lines are exchanged
C22_IntersectionSolves ==
    (Intersected /\ Determinant # 0) =>
        /\ Line_at(AsLine(aLines[1]), aOut.point) = FromInt(0)
        /\ Line_at(AsLine(aLines[2]), aOut.point) = FromInt(0)
        /\ aOut.point = Exchanged

-----------------------------------------------------------------------------
(* Claims about the Hermite basis.                                         *)

\* C26: h0(0) = 1, h1(1) = 1 and every other basis function is 0 at t = 0 and at
\* t = 1, h0(t) + h1(t) = 1 for every t, and the position function of an arc
\* gives the start at t = 0 and the end at t = 1 whatever the tangents
C26_HermiteEndpoints ==
    /\ LineMade("HermiteArc::basis") =>
          /\ RAdd(aOut.vals[1], aOut.vals[2]) = FromInt(1)
          /\ aNums[1] = FromInt(0) =>
                aOut.vals = <<FromInt(1), FromInt(0), FromInt(0), FromInt(0)>>
          /\ aNums[1] = FromInt(1) =>
                aOut.vals = <<FromInt(0), FromInt(1), FromInt(0), FromInt(0)>>
    /\ LineMade("position") =>
          /\ aNums[5] = FromInt(0) => aOut.vals[1] = aNums[1]
          /\ aNums[5] = FromInt(1) => aOut.vals[1] = aNums[3]

\* the position at t = 1 of an arc of which the start, the end and the tangents
\* differ
C26_Witness ==
    /\ LineMade("position")
    /\ aNums[5] = FromInt(1)
    /\ aNums[1] = FromInt(1) /\ aNums[2] = FromInt(-1) /\ aNums[3] = FromInt(0)
    /\ aNums[4] = FromInt(1)
    /\ aOut.vals[1] = FromInt(0)

-----------------------------------------------------------------------------
(* Claims about the edges the clippers intersect.                          *)

LineClipped == cPc = "done" /\ cOp = "OneColorLine::new_inside_polygon"

\* the clip went on to the intersections: no early return, no InvalidSegments and
\* no Outside
ReachedIntersections ==
    /\ Clipped \/ LineClipped
    /\ ~(Polygon_contains(shapeEdges, cStart) /\ Polygon_contains(shapeEdges, cEnd))
    /\ cRet.tag \notin {"InvalidSegments", "Outside"}

\* the edges the clipper called intersects with the query line
Crossed ==
    IF LineClipped
    THEN crossed_edges(OneColorLine_signums(
             LineGeneralForm_new_from_points(AsIPoint(cStart), AsIPoint(cEnd)),
             vertices(shapeEdges)))
    ELSE crossed_edges(vertex_signums(Line_new_from_points(cStart, cEnd), vertices(shapeEdges)))

\* a1*b2 - a2*b1 of the query line and the line of edge k, in whole numbers
EdgeDeterminant(k) ==
    (cEnd.y.n - cStart.y.n) * (first_point(shapeEdges[k]).x.n - last_point(shapeEdges[k]).x.n)
    - (last_point(shapeEdges[k]).y.n - first_point(shapeEdges[k]).y.n) * (cStart.x.n - cEnd.x.n)

\* C24: every polygon edge of which get_start_end_inside_polygon computes the
\* intersection with the query line is not parallel to that line (the divisor
\* a1*b2 - a2*b1 is not zero), so no division by zero happens and the endpoints
\* returned are finite; a query with start = end outside the polygon ends in Outside
C24_NoParallelIntersection ==
    /\ ReachedIntersections =>
          /\ \A i \in 1 .. Len(Crossed) : EdgeDeterminant(Crossed[i]) # 0
          /\ cRet.tag # "panic"
          /\ cRet.tag = "Ok" =>
                /\ IsFinite(cRet.start.x) /\ IsFinite(cRet.start.y)
                /\ IsFinite(cRet.end.x) /\ IsFinite(cRet.end.y)
    /\ ((Clipped \/ LineClipped) /\ cStart = cEnd /\ ~Polygon_contains(shapeEdges, cStart)) =>
          cRet.tag = "Outside"

\* the i32 clipper cut a query between two points outside the polygon, of which one
\* edge is parallel to the query line
C24_Witness ==
    /\ LineClipped
    /\ ReachedIntersections
    /\ cRet.tag = "Ok"
    /\ ~Polygon_contains(shapeEdges, cStart) /\ ~Polygon_contains(shapeEdges, cEnd)
    /\ \E k \in 1 .. Len(shapeEdges) : EdgeDeterminant(k) = 0

\* C28: in OneColorSegment::get_start_end_inside_polygon, once the signs are known
\* not to be all the same, at least two edges have ends of different signs, so at
\* least two intersections are collected and NotEnoughIntersections is not returned
C28_TwoCrossings ==
    Clipped =>
        /\ cRet.tag # "NotEnoughIntersections"
        /\ ReachedIntersections => Len(Crossed) >= 2

\* a query that crosses four edges of a concave polygon, from outside
C28_Witness ==
    /\ Clipped
    /\ ReachedIntersections
    /\ ~Polygon_contains(shapeEdges, cStart)
    /\ Len(Crossed) = 4
    /\ cRet.tag = "Ok"

-----------------------------------------------------------------------------
(* Claims about the errors of cut_inside_polygon.                          *)

\* C29: when cut_inside_polygon returns an error (Outside, NotEnoughIntersections,
\* InvalidSegments or InvalidIntersection) the stored points of the segment are the
\* ones before the call: the second search cannot fail after the first one found a
\* point, so no error comes after points were dropped
C29_ErrorKeepsPoints ==
    (CutDone /\ cRet.tag # "Ok") => segPoints = cBefore

\* the clip gave two endpoints, the first search found neither among the stored
\* points and the cut failed
C29_Witness ==
    /\ CutDone
    /\ cRet.tag = "InvalidIntersection"
    /\ Len(cBefore) > 1
    /\ segPoints = cBefore

-----------------------------------------------------------------------------
(* Claims about the direction of the query.                                *)

\* both ends of the query are outside the polygon and the clip succeeded
ClippedFromOutside ==
    /\ Clipped
    /\ ~Polygon_contains(shapeEdges, cStart) /\ ~Polygon_contains(shapeEdges, cEnd)
    /\ cRet.tag = "Ok"

\* what the clip of (end, start) returns
Reversed == get_start_end_inside_polygon(cEnd, cStart, shapeEdges)

OnQueryLine(i) ==
    (cEnd.y.n - cStart.y.n) * vertices(shapeEdges)[i].x.n
    + (cStart.x.n - cEnd.x.n) * vertices(shapeEdges)[i].y.n
    + (cEnd.x.n * cStart.y.n - cStart.x.n * cEnd.y.n) = 0

-----------------------------------------------------------------------------
(* Claims about the number of steps of the rasterizers.                    *)

\* max(|dx|, |dy|) of the call
Extent == IF IAbs(rEnd.x - rStart.x) >= IAbs(rEnd.y - rStart.y)
          THEN IAbs(rEnd.x - rStart.x) ELSE IAbs(rEnd.y - rStart.y)

\* where the walk is on the axis of larger extent after k steps
MajorAfter(k) ==
    IF IAbs(rEnd.x - rStart.x) >= IAbs(rEnd.y - rStart.y)
    THEN FromInt(rStart.x + k * ISignum(rEnd.x - rStart.x))
    ELSE FromInt(rStart.y + k * ISignum(rEnd.y - rStart.y))

\* the coordinate of p on the axis of larger extent
Major(p) == IF IAbs(rEnd.x - rStart.x) >= IAbs(rEnd.y - rStart.y) THEN p.x ELSE p.y

\* C25: for grid endpoints the loop of OneColorSegment::new and OneColorLine::new
\* ends after max(|dx|, |dy|) iterations: the result has max(|dx|, |dy|) + 1 points,
\* each one unit further along the axis of larger extent than the one before, and no
\* point is repeated (one point when start = end)
C25_ExtentSteps ==
    RasterizedByNew =>
        /\ rOut.finished
        /\ Len(rOut.points) = Extent + 1
        /\ \A i \in 1 .. Len(rOut.points) : Major(rOut.points[i]) = MajorAfter(i - 1)
        /\ \A i \in 1 .. Len(rOut.points) : \A j \in 1 .. Len(rOut.points) :
              rOut.points[i] = rOut.points[j] => i = j

\* a walk of two steps, up and to the left, along y: its extent on x is one
C25_Witness ==
    /\ RasterizedByNew
    /\ rEnd.x - rStart.x = -1
    /\ rEnd.y - rStart.y = 2
    /\ Len(rOut.points) = 3

-----------------------------------------------------------------------------
(* Claims about rectangles.                                                *)

Asked == cPc = "done" /\ cOp \in {"Polygon::contains", "Figure::contains"}

\* the x-range and the y-range of the shape, in whole numbers
LowX == Lowest({vertices(shapeEdges)[i].x.n : i \in 1 .. Len(shapeEdges)})

HighX == Highest({vertices(shapeEdges)[i].x.n : i \in 1 .. Len(shapeEdges)})

LowY == Lowest({vertices(shapeEdges)[i].y.n : i \in 1 .. Len(shapeEdges)})

HighY == Highest({vertices(shapeEdges)[i].y.n : i \in 1 .. Len(shapeEdges)})

\* C27: a rectangle with sides along the axes, x-range [x0, x1] and y-range
\* [y0, y1], contains p exactly when x0 <= p.x < x1 and y0 <= p.y < y1, whatever
\* its winding and its first vertex: the edges of least x and of least y are inside,
\* those of greatest x and of greatest y are outside
C27_RectangleHalfOpen ==
    Asked =>
        (cRet = Answer(TRUE)
            <=> /\ LowX <= cStart.x.n /\ cStart.x.n < HighX
                /\ LowY <= cStart.y.n /\ cStart.y.n < HighY)

\* a point on the edge of least x, not a corner, of a rectangle given from its
\* corner of greatest x and y, is inside
C27_Witness ==
    /\ Asked
    /\ vertices(shapeEdges)[1] = PointFromInts(HighX, HighY)
    /\ vertices(shapeEdges)[2] = PointFromInts(LowX, HighY)
    /\ cStart.x.n = LowX
    /\ LowY < cStart.y.n /\ cStart.y.n < HighY
    /\ cRet = Answer(TRUE)

=============================================================================
